---- MODULE Spec2Model ----
(***************************************************************************)
(* A model of tensorflow_recon: the multiscale reconstruction driver       *)
(* reconstruct_ptychography (ptychography.py) and the helpers of util.py   *)
(* it relies on.                                                           *)
(*                                                                         *)
(* Abstractions.  The object volume is represented by one voxel with its   *)
(* two channels (delta, beta), an integer each; its shape is kept as a     *)
(* triple.  Losses and gradients come from the measured data through the   *)
(* forward model and automatic differentiation: they are inputs, drawn     *)
(* from LossVals and GradVals.  An Adam step moves a voxel one unit        *)
(* against the sign of the gradient it is given.  A run that raises an     *)
(* exception ends in pc = "aborted".                                       *)
(*                                                                         *)
(* Spec is the driver run by hvd.size() worker processes.  SpecBatch,      *)
(* SpecData and SpecKernel are the index list of an epoch, the measured    *)
(* data of the levels and one call of multislice_propagate, over bounded   *)
(* inputs of their own; SpecWave is the loop over the slices with its      *)
(* transforms, SpecInterp one call of biliniear_interpolation_3d           *)
(* (interpolation.py) and SpecShift the two shifts of util.py.             *)
(***************************************************************************)
EXTENDS Integers, Sequences, FiniteSets, TLC

VARIABLES
    cfg,        \* the arguments of reconstruct_ptychography and hvd.size()
    wk,         \* rank -> the local variables of that worker's process
    files,      \* the output folder: results saved per downsampling level
    stop_file,  \* the content of the file '.stop_iteration'
    bcast_msg,  \* rank -> values broadcast by rank 0 and not yet received
    bt,         \* the index list of one epoch, from permutation to shards
    dsd,        \* the measured data over the levels of one run
    kn,         \* one call of multislice_propagate
    wv,         \* the wavefront of one call of multislice_propagate
    ip,         \* one call of biliniear_interpolation_3d
    sh          \* a tensor under fftshift and ifftshift

dvars == <<cfg, wk, files, stop_file, bcast_msg>>

aux == <<bt, dsd, kn, wv, ip, sh>>

vars == <<cfg, wk, files, stop_file, bcast_msg, bt, dsd, kn, wv, ip, sh>>

-----------------------------------------------------------------------------
(* Bounds of the model *)

MaxLevel == 2       \* multiscale_level ranges over 1..MaxLevel
MaxAccum == 2       \* n_batch_per_update ranges over 1..MaxAccum
MaxPos == 3         \* len(probe_pos) ranges over 2..MaxPos

(* n_epochs = 'auto'; None, for n_epoch_final_pass, probe_circ_mask,       *)
(* free_prop_cm, pupil_function and probe_initial                          *)
Auto == 0
None == 0

EpochVals == {1, 2}             \* epoch budgets
MaxEpochVals == {1, 2, 3}       \* values of max_nepochs
ThetaVals == {1, 2}             \* numbers of projection angles
SizeVals == {1, 2}              \* hvd.size()
LossVals == {1, 2, 3}           \* values of the loss tensor
GradVals ==                     \* values of the gradient at a voxel and,
                                \* for every pixel of the probe, probe
    {[delta |-> 1, beta |-> 1, probe |-> 1],
     [delta |-> -1, beta |-> -1, probe |-> -1],
     [delta |-> 1, beta |-> -1, probe |-> 1]}
Seeds == {0, 1}                 \* int(time.time() / 60), relative
ObjVals == -1 .. 1              \* the range kept for a voxel value
ProbeVals == -1 .. 2            \* the range kept for a pixel of the probe
ShapeVals == {<<1, 1, 1>>, <<2, 2, 2>>, <<1, 1, 2>>}

(* crit_conv_rate, as the fraction num / den *)
crit_conv_rate == [num |-> 1, den |-> 2]

ProbeTypes == {"gaussian", "optimizable", "fixed", "plane"}

-----------------------------------------------------------------------------
(* Configurations: a base one, those differing from it in at most two      *)
(* parameters, and the run of two workers without mpi4py over up to three  *)
(* epochs.  horovod_is_ok and mpi4py_is_ok tell whether the imports of     *)
(* Horovod and of mpi4py succeed.                                          *)

Base ==
    [multiscale_level |-> 1, n_epochs |-> Auto, max_nepochs |-> 2,
     n_epoch_final_pass |-> None, n_batch_per_update |-> 1,
     probe_type |-> "optimizable", n_pos |-> 2, minibatch_size |-> 1,
     size |-> 1, n_theta |-> 2, obj_size |-> <<1, 1, 1>>,
     cpu_only |-> TRUE, probe_circ_mask |-> None, mpi4py_is_ok |-> TRUE,
     free_prop_cm |-> None, dynamic_rate |-> TRUE, pupil_function |-> None,
     probe_initial |-> None, core_parallelization |-> TRUE,
     horovod_is_ok |-> TRUE]

Dom ==
    [multiscale_level |-> 1 .. MaxLevel,
     n_epochs |-> {Auto} \cup EpochVals,
     max_nepochs |-> MaxEpochVals,
     n_epoch_final_pass |-> {None} \cup EpochVals,
     n_batch_per_update |-> 1 .. MaxAccum,
     probe_type |-> ProbeTypes,
     n_pos |-> 2 .. MaxPos,
     minibatch_size |-> 1 .. MaxPos,
     size |-> SizeVals,
     n_theta |-> ThetaVals,
     obj_size |-> ShapeVals,
     cpu_only |-> BOOLEAN,
     probe_circ_mask |-> {None, 1},
     mpi4py_is_ok |-> BOOLEAN,
     free_prop_cm |-> {None, 1},
     dynamic_rate |-> BOOLEAN,
     pupil_function |-> {None, 1},
     probe_initial |-> {None, 1},
     core_parallelization |-> BOOLEAN,
     horovod_is_ok |-> BOOLEAN]

NearBase ==
    UNION {UNION {{[[Base EXCEPT ![f] = u] EXCEPT ![g] = v] :
                        u \in Dom[f], v \in Dom[g]} :
                  g \in DOMAIN Base} : f \in DOMAIN Base}

TwoWithoutMpi ==
    [Base EXCEPT !.mpi4py_is_ok = FALSE, !.size = 2, !.max_nepochs = 3]

\* two positions in a minibatch, which needs three settings to run
TwoPerMinibatch ==
    [Base EXCEPT !.minibatch_size = 2, !.n_pos = 3, !.n_batch_per_update = 2]

\* hvd is Horovod when core_parallelization is set and the import succeeds,
\* the stand-in of pseudo otherwise
PseudoHvd(c) == ~c.core_parallelization \/ ~c.horovod_is_ok

\* size is hvd.size(): the stand-in is a single worker
Configs ==
    {c \in NearBase \cup {TwoWithoutMpi, TwoPerMinibatch} :
        PseudoHvd(c) => c.size = 1}

Ranks == 0 .. (cfg.size - 1)

-----------------------------------------------------------------------------
(* Pure helpers of the driver *)

\* a factor that is no power of two
OddFactor(k) == 2 * k + 1

\* ds_level = 2 ** ds_level
LevelFactor(k) == 2 ^ k

\* the first value of the level loop: range(multiscale_level - 1, -1, -1)
FirstLevel(c) == c.multiscale_level - 1

\* a budget that leaves n_epoch_final_pass out
NLoopWithoutFinalPass(c, ds) ==
    IF c.n_epochs # Auto THEN c.n_epochs ELSE c.max_nepochs

\* n_loop
NLoop(c, ds) ==
    IF ds = 1 /\ c.n_epoch_final_pass # None THEN c.n_epoch_final_pass
    ELSE IF c.n_epochs # Auto THEN c.n_epochs
    ELSE c.max_nepochs

\* n_batch = int(np.ceil(float(n_pos) / minibatch_size / hvd.size()))
NBatch(c) ==
    (c.n_pos + c.minibatch_size * c.size - 1) \div (c.minibatch_size * c.size)

\* np.random.choice(range(n_pos), n, replace=False) raises when n > n_pos
PadCount(c) == NBatch(c) * c.minibatch_size * c.size - c.n_pos

PadFails(c) == PadCount(c) > c.n_pos

\* a criterion without the threshold: any decrease
AnyDecrease(current_loss, last) == current_loss < last

\* -crit_conv_rate < (current_loss - loss_ls[-1]) / loss_ls[-1] < 0,
\* in floating point: a division by zero gives inf or nan, never in range
StopCriterion(current_loss, last) ==
    /\ last # 0
    /\ IF last > 0
       THEN /\ -crit_conv_rate.num * last
                  < (current_loss - last) * crit_conv_rate.den
            /\ current_loss - last < 0
       ELSE /\ -crit_conv_rate.num * last
                  > (current_loss - last) * crit_conv_rate.den
            /\ current_loss - last > 0

\* an update on full windows only
ApplyOnFullWindow(batch_counter, i_batch, n_batch, A) == batch_counter = A

\* batch_counter == n_batch_per_update or i_batch == n_batch - 1
ApplyNow(batch_counter, i_batch, n_batch, A) ==
    batch_counter = A \/ i_batch = n_batch - 1

Sgn(x) == IF x > 0 THEN 1 ELSE IF x < 0 THEN -1 ELSE 0

\* one step of the Adam optimizer on a voxel, given its gradient
AdamStep(v, g) == v - Sgn(g)

\* tf.nn.relu
Relu(v) == IF v < 0 THEN 0 ELSE v

\* the shape of upsample_2x(arr)
UpShape(s) == <<2 * s[1], 2 * s[2], 2 * s[3]>>

\* numpy: a += b needs b's shape to broadcast to a's
BroadcastsInto(b, a) == \A i \in 1 .. 3 : b[i] = a[i] \/ b[i] = 1

\* np.random.normal(...) after np.random.seed(seed): fixed by the seed
NormalDraw(seed) == IF seed = 0 THEN [delta |-> 1, beta |-> 0]
                    ELSE [delta |-> 0, beta |-> 1]

NoiseDraw(seed) == IF seed = 0 THEN [delta |-> 1, beta |-> -1]
                   ELSE [delta |-> -1, beta |-> 0]

Zero == [delta |-> 0, beta |-> 0]

\* sess.run(obj): the value of the tensor the Python name obj refers to
ObjTensor(l) ==
    IF l.obj_relu THEN [delta |-> Relu(l.obj.delta), beta |-> Relu(l.obj.beta)]
    ELSE l.obj

\* theta = -np.linspace(theta_st, theta_end, n_theta), in units of the step
Theta(i_theta) == -i_theta

\* a rotation that goes on from the volume rotated last
RotatePrevious(l) == l.obj_rot

\* the volume tf_rotate is given: the variable obj, with the rotation it
\* holds (frame) and the number of updates it has received (version)
RotateInput(l) == [frame |-> l.obj_frame, version |-> l.n_update]

\* obj_rot = tf_rotate(obj, this_theta, interpolation='BILINEAR')
TfRotate(vol, this_theta) == [vol EXCEPT !.frame = @ + this_theta]

\* the free_prop_cm rotate_and_project passes to multislice_propagate
FreePropArg(c) == None

\* multislice_propagate: the propagations that follow the last slice
FreePropSteps(free_prop_cm) == IF free_prop_cm # None THEN 1 ELSE 0

\* the probe planes, at a pixel inside and at one outside the pupil
Pupil == [inside |-> 1, outside |-> 0]

PlaneTimes(p, q) == [inside |-> p.inside * q.inside,
                     outside |-> p.outside * q.outside]

\* probe_real, probe_imag as the level constructs them
ProbeInit(c) ==
    LET plane == [inside |-> 1, outside |-> 1]
    IN  IF c.probe_type = "optimizable" /\ c.pupil_function # None
        THEN PlaneTimes(plane, Pupil)
        ELSE plane

\* a step that moves the probe whatever its type
ProbeStepAlways(c, p, g) ==
    [inside |-> p.inside - Sgn(g), outside |-> p.outside - Sgn(g)]

\* the step of optimizer_probe on [probe_real, probe_imag], which exists
\* for probe_type 'optimizable' only
ProbeStep(c, p, g) ==
    IF c.probe_type = "optimizable"
    THEN [inside |-> AdamStep(p.inside, g), outside |-> AdamStep(p.outside, g)]
    ELSE p

\* modifier = tf.exp(-i_epoch) * (n_batch_per_update - 1) + 1, as the pair
\* (boost, exponent) of boost * exp(-exponent) + 1; i_epoch is the
\* tf.Variable the graph was built with
Modifier(c, l) ==
    IF c.dynamic_rate /\ c.n_batch_per_update > 1
    THEN [boost |-> c.n_batch_per_update - 1, exponent |-> l.i_epoch.var]
    ELSE [boost |-> 0, exponent |-> 0]

-----------------------------------------------------------------------------
(* The state of one worker process *)

InitLocal(c) ==
    [pc |-> "start", error |-> "", warned |-> {},
     level |-> FirstLevel(c), ds_level |-> 0, initializer_flag |-> FALSE,
     obj |-> Zero, obj_init |-> Zero, obj_shape |-> <<0, 0, 0>>,
     obj_relu |-> FALSE,
     n_loop |-> 0, n_batch |-> 0, epoch |-> 0, i_theta |-> 0, i_batch |-> 0,
     batch_counter |-> 0, accum_grad |-> Zero,
     \* reg_ls: an entry, the current_reg of an epoch, is represented by
     \* the index of that epoch
     current_loss |-> 0, loss_ls |-> <<>>, reg_ls |-> <<>>,
     stop_iteration |-> FALSE,
     broke |-> FALSE, crit |-> FALSE,
     \* built, whether the forward model of the level is built, with n_free
     \* free-space propagations; obj_frame, the rotation held by the
     \* variable obj; obj_rot, the tensor obj_rot of the last sess.run
     built |-> FALSE, n_free |-> 0,
     obj_frame |-> 0, obj_rot |-> [frame |-> 0, version |-> 0],
     \* fwd_terms, the sub-volumes of the loss terms of the last sess.run
     fwd_terms |-> <<>>,
     \* probe, the variables (or constants) probe_real and probe_imag;
     \* probe_masked, whether the names refer to the masked products
     probe |-> [inside |-> 0, outside |-> 0],
     probe_init |-> [inside |-> 0, outside |-> 0],
     probe_masked |-> FALSE, accum_grad_probe |-> 0,
     \* i_epoch: var, the tf.Variable; adds, the additions of 1 that the
     \* tensor of the name i_epoch holds; modifier, that of the last update
     i_epoch |-> [var |-> 0, adds |-> 0],
     modifier |-> [boost |-> 0, exponent |-> 0],
     \* history: fwd_theta and fwd_updates, the angle index fed to the last
     \* sess.run and the updates made before it; upd_epoch, the epoch of
     \* the last update
     fwd_theta |-> 0, fwd_updates |-> 0, upd_epoch |-> 0,
     \* history: crit, whether the criterion held at the last check;
     \* n_accum, gradients in accum_grad; last_window, those of the last
     \* update; done_levels, the levels finished
     n_accum |-> 0, n_minibatch |-> 0, n_update |-> 0, last_window |-> 0,
     done_levels |-> <<>>]

Idle == [pc |-> "idle"]

Init ==
    /\ cfg \in Configs
    /\ wk = [w \in 0 .. (cfg.size - 1) |-> InitLocal(cfg)]
    /\ files = {}
    /\ stop_file = ""
    /\ bcast_msg = [w \in 0 .. (cfg.size - 1) |-> <<>>]
    /\ bt = Idle
    /\ dsd = Idle
    /\ kn = Idle
    /\ wv = Idle
    /\ ip = Idle
    /\ sh = Idle

Abort(l, why) == [l EXCEPT !.pc = "aborted", !.error = why]

-----------------------------------------------------------------------------
(* The start of the run: the import of Horovod and mpi4py or of their      *)
(* stand-ins, the reading of the data, up to the first comm.Barrier()      *)

\* the warnings of lines 53-79
ImportWarnings(c) ==
    IF ~c.core_parallelization THEN {"Parallelization is disabled"}
    ELSE (IF c.horovod_is_ok THEN {} ELSE {"Unable to import Horovod"})
         \cup (IF c.mpi4py_is_ok THEN {} ELSE {"Unable to import mpi4py"})

\* whether the name comm is bound after lines 53-79: the branch of
\* core_parallelization is False imports hvd only
CommBound(c) == c.core_parallelization

Startup(w) ==
    /\ wk[w].pc = "start"
    /\ wk' = [wk EXCEPT ![w] =
                IF CommBound(cfg)
                THEN [@ EXCEPT !.warned = ImportWarnings(cfg),
                               !.pc = "bar_read"]
                ELSE Abort([@ EXCEPT !.warned = ImportWarnings(cfg)],
                           "UnboundLocalError: comm")]
    /\ UNCHANGED <<aux, cfg, files, stop_file, bcast_msg>>

-----------------------------------------------------------------------------
(* for ds_level in range(multiscale_level - 1, -1, -1) *)

LevelHead(w) ==
    /\ wk[w].pc = "level_head"
    /\ wk' = [wk EXCEPT ![w] =
                IF wk[w].level >= 0
                THEN [@ EXCEPT !.ds_level = LevelFactor(wk[w].level),
                               !.pc = "bar_level"]
                ELSE [@ EXCEPT !.pc = "done"]]
    /\ UNCHANGED <<aux, cfg, files, stop_file, bcast_msg>>

(* comm.Barrier() *)

BarrierPcs == {"bar_read", "bar_level", "bar_conv", "bar_epoch"}

AfterBarrier(pc) ==
    CASE pc = "bar_read" -> "level_head"
      [] pc = "bar_level" -> "level_init"
      [] pc = "bar_conv" -> "bcast"
      [] pc = "bar_epoch" -> "epoch_head"

\* a barrier that lets a rank through without the others
BarrierAlone ==
    /\ cfg.mpi4py_is_ok
    /\ \E w \in Ranks :
          /\ wk[w].pc \in BarrierPcs
          /\ wk' = [wk EXCEPT ![w].pc = AfterBarrier(wk[w].pc)]
    /\ UNCHANGED <<aux, cfg, files, stop_file, bcast_msg>>

\* MPI.COMM_WORLD.Barrier(): returns once every rank has called it
BarrierSync ==
    /\ cfg.mpi4py_is_ok
    /\ \A w \in Ranks : wk[w].pc \in BarrierPcs
    /\ wk' = [w \in Ranks |-> [wk[w] EXCEPT !.pc = AfterBarrier(wk[w].pc)]]
    /\ UNCHANGED <<aux, cfg, files, stop_file, bcast_msg>>

\* pseudo.Mpi().Barrier(): the stand-in without mpi4py returns at once
BarrierPseudo(w) ==
    /\ ~cfg.mpi4py_is_ok
    /\ wk[w].pc \in BarrierPcs
    /\ wk' = [wk EXCEPT ![w].pc = AfterBarrier(wk[w].pc)]
    /\ UNCHANGED <<aux, cfg, files, stop_file, bcast_msg>>

-----------------------------------------------------------------------------
(* Level initialisation: data, object, probe, kernel, graph, optimizer *)

SavedFor(ds) == {f \in files : f.ds = ds}

\* a set-up that lets any probe_type through
InitErrorAnyProbe(c, l) ==
    CASE l.initializer_flag /\ SavedFor(2 * l.ds_level) = {} ->
            "IOError: read_tiff"
      [] l.initializer_flag /\ SavedFor(2 * l.ds_level) # {}
           /\ \E f \in SavedFor(2 * l.ds_level) :
                 ~BroadcastsInto(c.obj_size, UpShape(f.shape)) ->
            "ValueError: operands could not be broadcast together"
      [] c.probe_type = "fixed" /\ c.probe_initial = None ->
            "TypeError: cannot unpack NoneType"
      [] ~c.cpu_only ->
            "NameError: rotate_and_project_batch"
      [] c.probe_circ_mask # None ->
            "NameError: probe_mask"
      [] c.n_batch_per_update = 1 /\ c.minibatch_size >= c.n_theta ->
            "AttributeError: minimize"
      [] OTHER -> ""

\* the first exception raised while the level is set up, "" if none
InitError(c, l) ==
    CASE l.initializer_flag /\ SavedFor(2 * l.ds_level) = {} ->
            "IOError: read_tiff"
      [] l.initializer_flag /\ SavedFor(2 * l.ds_level) # {}
           /\ \E f \in SavedFor(2 * l.ds_level) :
                 ~BroadcastsInto(c.obj_size, UpShape(f.shape)) ->
            "ValueError: operands could not be broadcast together"
      [] c.probe_type \notin {"gaussian", "optimizable", "fixed"} ->
            "ValueError: Invalid wavefront type"
      [] c.probe_type = "fixed" /\ c.probe_initial = None ->
            "TypeError: cannot unpack NoneType"
      [] ~c.cpu_only ->
            "NameError: rotate_and_project_batch"
      [] c.probe_circ_mask # None ->
            "NameError: probe_mask"
      [] c.n_batch_per_update = 1 /\ c.minibatch_size >= c.n_theta ->
            "AttributeError: minimize"
      [] OTHER -> ""

Between(a, b) == IF a <= b THEN a .. b ELSE b .. a

\* obj_init of a level: Gaussian random on the first level processed,
\* upsample_2x of the saved result plus noise afterwards; negatives to 0
ObjInits(l, seed) ==
    IF ~l.initializer_flag
    THEN {[shape |-> cfg.obj_size,
           val |-> [delta |-> Relu(NormalDraw(seed).delta),
                    beta |-> Relu(NormalDraw(seed).beta)]]}
    ELSE UNION {{[shape |-> UpShape(f.shape),
                  val |-> [delta |-> Relu(ud + NoiseDraw(seed).delta),
                           beta |-> Relu(ub + NoiseDraw(seed).beta)]] :
                    ud \in Between(0, f.obj.delta),
                    ub \in Between(0, f.obj.beta)} :
                f \in SavedFor(2 * l.ds_level)}

LevelInit(w) ==
    /\ wk[w].pc = "level_init"
    /\ \/ /\ InitError(cfg, wk[w]) # ""
          /\ wk' = [wk EXCEPT ![w] = Abort(@, InitError(cfg, wk[w]))]
       \/ /\ InitError(cfg, wk[w]) = ""
          /\ \E seed \in Seeds : \E o \in ObjInits(wk[w], seed) :
                wk' = [wk EXCEPT ![w] =
                         [@ EXCEPT !.obj = o.val, !.obj_init = o.val,
                                   !.obj_shape = o.shape, !.obj_relu = FALSE,
                                   !.accum_grad = Zero,
                                   !.obj_frame = 0,
                                   !.obj_rot = [frame |-> 0, version |-> 0],
                                   !.fwd_terms = <<>>,
                                   !.probe = ProbeInit(cfg),
                                   !.probe_init = ProbeInit(cfg),
                                   !.probe_masked = FALSE,
                                   !.accum_grad_probe = 0,
                                   !.i_epoch = [var |-> 0, adds |-> 0],
                                   !.modifier = [boost |-> 0, exponent |-> 0],
                                   !.fwd_theta = 0, !.fwd_updates = 0,
                                   !.upd_epoch = 0,
                                   !.built = TRUE,
                                   !.n_free = FreePropSteps(FreePropArg(cfg)),
                                   !.loss_ls = <<>>, !.reg_ls = <<>>,
                                   !.crit = FALSE,
                                   !.n_loop = NLoop(cfg, wk[w].ds_level),
                                   !.n_batch = NBatch(cfg),
                                   !.epoch = 0,
                                   !.n_accum = 0, !.n_minibatch = 0,
                                   !.n_update = 0, !.last_window = 0,
                                   !.pc = "epoch_head"]]
    /\ UNCHANGED <<aux, cfg, files, stop_file, bcast_msg>>

-----------------------------------------------------------------------------
(* for epoch in range(n_loop): the index list of the epoch *)

EpochHead(w) ==
    /\ wk[w].pc = "epoch_head"
    /\ \/ /\ wk[w].epoch < wk[w].n_loop
          /\ PadFails(cfg)
          /\ wk' = [wk EXCEPT ![w] =
                      Abort(@, "ValueError: larger sample than population")]
       \/ /\ wk[w].epoch < wk[w].n_loop
          /\ ~PadFails(cfg)
          /\ wk' = [wk EXCEPT ![w] = [@ EXCEPT !.i_theta = 0,
                                               !.pc = "theta_head"]]
       \/ /\ wk[w].epoch >= wk[w].n_loop
          /\ wk' = [wk EXCEPT ![w] = [@ EXCEPT !.broke = FALSE,
                                               !.pc = "level_end"]]
    /\ UNCHANGED <<aux, cfg, files, stop_file, bcast_msg>>

(* for i_theta in range(n_theta); after the loop, obj = tf.nn.relu(obj) *)

ThetaHead(w) ==
    /\ wk[w].pc = "theta_head"
    /\ \/ /\ wk[w].i_theta < cfg.n_theta
          /\ cfg.minibatch_size < cfg.n_pos
          /\ wk' = [wk EXCEPT ![w] =
                      [@ EXCEPT !.stop_iteration =
                                    IF cfg.mpi4py_is_ok THEN FALSE ELSE @,
                                !.i_epoch.adds = @ + 1,
                                !.batch_counter = 0, !.i_batch = 0,
                                !.pc = "batch"]]
          /\ stop_file' = IF cfg.mpi4py_is_ok THEN stop_file ELSE "False"
       \/ /\ wk[w].i_theta < cfg.n_theta
          /\ cfg.minibatch_size >= cfg.n_pos
          /\ wk' = [wk EXCEPT ![w] =
                      Abort(@, "UnboundLocalError: feed_dict")]
          /\ stop_file' = IF cfg.mpi4py_is_ok THEN stop_file ELSE "False"
       \/ /\ wk[w].i_theta >= cfg.n_theta
          /\ wk' = [wk EXCEPT ![w] =
                      [@ EXCEPT !.obj_relu = TRUE,
                                !.pc = IF cfg.n_epochs = Auto THEN "check"
                                       ELSE "epoch_tail"]]
          /\ UNCHANGED stop_file
    /\ UNCHANGED <<aux, cfg, files, bcast_msg>>

-----------------------------------------------------------------------------
(* One minibatch: sess.run of the accumulate or the minimize operation.    *)
(* Horovod's DistributedOptimizer all-reduces the gradient, so the ranks   *)
(* take the step together and receive the same gradient g.  The loss of a  *)
(* rank other than 0 is never read: the model keeps the one of rank 0.     *)

Add(a, b) == [delta |-> a.delta + b.delta, beta |-> a.beta + b.beta]

Step(o, g) == [delta |-> AdamStep(o.delta, g.delta),
               beta |-> AdamStep(o.beta, g.beta)]

\* if probe_type == 'optimizable' and pupil_function is not None:
\* probe_real = probe_real * pupil_function, and the same for probe_imag
EnforcePupil(l) ==
    IF cfg.probe_type = "optimizable" /\ cfg.pupil_function # None
    THEN [l EXCEPT !.probe_masked = TRUE]
    ELSE l

\* the end of one pass of the loop over i_batch
NextBatch(l) ==
    IF l.i_batch + 1 < l.n_batch
    THEN [EnforcePupil(l) EXCEPT !.i_batch = @ + 1, !.n_minibatch = @ + 1]
    ELSE [EnforcePupil(l) EXCEPT !.i_batch = @ + 1, !.n_minibatch = @ + 1,
                                 !.i_theta = @ + 1, !.pc = "theta_head"]

\* a sub-volume cut from the object as it is j updates later
SubobjFresh(obj_rot, j) ==
    [pos |-> j, frame |-> obj_rot.frame, version |-> obj_rot.version + j]

\* subobj = obj_rot[the window of this_pos_batch[j]]
Subobj(obj_rot, j) ==
    [pos |-> j, frame |-> obj_rot.frame, version |-> obj_rot.version]

\* for j in range(minibatch_size): the sub-volumes whose terms loss sums
LossTerms(obj_rot) ==
    [k \in 1 .. cfg.minibatch_size |-> Subobj(obj_rot, k - 1)]

\* the forward model of one sess.run: rotate_and_project at this_theta
Forward(l) ==
    LET obj_rot == TfRotate(RotateInput(l), Theta(l.i_theta))
    IN  [l EXCEPT !.obj_rot = obj_rot,
                  !.fwd_terms = LossTerms(obj_rot),
                  !.fwd_theta = l.i_theta, !.fwd_updates = l.n_update]

\* an accumulator left as it is after the update
KeepGrad(l) == l

\* initialize_grad = accum_grad.assign(tf.zeros_like(accum_grad))
InitializeGrad(l) == [l EXCEPT !.accum_grad = Zero, !.n_accum = 0]

\* initialize_grad_probe, the same for the two accumulators of the probe
InitializeGradProbe(l) == [l EXCEPT !.accum_grad_probe = 0]

\* sess.run(initialize_grad), and for an optimizable probe
\* sess.run(initialize_grad_probe), after the update operations
InitializeAfterApply(l) ==
    IF cfg.probe_type = "optimizable"
    THEN InitializeGradProbe(InitializeGrad(l))
    ELSE InitializeGrad(l)

\* n_batch_per_update > 1: accum_op, the report, then update_obj and
\* initialize_grad when the window is complete
AccumulateStep(l, g, loss) ==
    LET l1 == [Forward(l) EXCEPT
                 !.accum_grad = Add(@, g), !.n_accum = @ + 1,
                 !.accum_grad_probe = IF cfg.probe_type = "optimizable"
                                      THEN @ + g.probe ELSE @,
                 !.current_loss = loss]
        bc == l.batch_counter + 1
    IN  IF cfg.probe_type # "optimizable"
        THEN Abort(l1, "UnboundLocalError: current_probe_reg")
        ELSE IF ApplyNow(bc, l.i_batch, l.n_batch, cfg.n_batch_per_update)
        THEN NextBatch(InitializeAfterApply(
                       [l1 EXCEPT !.obj = Step(@, l1.accum_grad),
                                  !.probe = ProbeStep(cfg, @,
                                                      l1.accum_grad_probe),
                                  !.modifier = Modifier(cfg, l1),
                                  !.upd_epoch = l.epoch,
                                  !.n_update = @ + 1,
                                  !.last_window = l1.n_accum,
                                  !.batch_counter = 0]))
        ELSE NextBatch([l1 EXCEPT !.batch_counter = bc])

\* n_batch_per_update = 1: optimizer.minimize(loss, var_list=[obj])
MinimizeStep(l, g, loss) ==
    NextBatch([Forward(l) EXCEPT
                 !.obj = Step(@, g),
                 !.probe = ProbeStep(cfg, @, g.probe),
                 !.modifier = Modifier(cfg, l),
                 !.upd_epoch = l.epoch,
                 !.n_update = @ + 1,
                 !.last_window = 1, !.current_loss = loss])

\* the values of current_loss: any for the last minibatch of an epoch,
\* which the criterion and the history read; one value for a minibatch
\* whose loss the next sess.run overwrites
LossesAt(l) ==
    IF l.i_theta + 1 >= cfg.n_theta /\ l.i_batch + 1 >= l.n_batch
    THEN LossVals ELSE {1}

MinibatchStep(l, g, loss) ==
    IF cfg.n_batch_per_update > 1 THEN AccumulateStep(l, g, loss)
    ELSE MinimizeStep(l, g, loss)

Minibatch ==
    /\ \A w \in Ranks : wk[w].pc = "batch"
    /\ \E g \in GradVals, loss \in LossesAt(wk[0]) :
          /\ wk' = [w \in Ranks |->
                       MinibatchStep(wk[w], g, IF w = 0 THEN loss ELSE 0)]
          /\ \A w \in Ranks : /\ wk'[w].obj.delta \in ObjVals
                              /\ wk'[w].obj.beta \in ObjVals
                              /\ wk'[w].probe.inside \in ProbeVals
                              /\ wk'[w].probe.outside \in ProbeVals
    /\ UNCHANGED <<aux, cfg, files, stop_file, bcast_msg>>

-----------------------------------------------------------------------------
(* The stopping criterion of n_epochs == 'auto' *)

Last(s) == s[Len(s)]

\* a record of the loss alone
AppendLossOnly(l) == [l EXCEPT !.loss_ls = Append(@, l.current_loss)]

\* loss_ls.append(current_loss); reg_ls.append(current_reg)
AppendLoss(l) == [l EXCEPT !.loss_ls = Append(@, l.current_loss),
                           !.reg_ls = Append(@, l.epoch)]

CheckStop(w) ==
    /\ wk[w].pc = "check"
    /\ \/ /\ Len(wk[w].loss_ls) > 0
          /\ StopCriterion(wk[w].current_loss, Last(wk[w].loss_ls))
          /\ w = 0
          /\ wk' = [wk EXCEPT ![w] =
                      [AppendLoss(@) EXCEPT
                                !.stop_iteration = TRUE,
                                !.crit = TRUE,
                                !.pc = "bar_conv"]]
          /\ stop_file' = IF cfg.mpi4py_is_ok THEN stop_file ELSE "True"
       \/ /\ ~(/\ Len(wk[w].loss_ls) > 0
               /\ StopCriterion(wk[w].current_loss, Last(wk[w].loss_ls))
               /\ w = 0)
          /\ wk' = [wk EXCEPT ![w] = [@ EXCEPT !.crit = FALSE,
                                               !.pc = "bar_conv"]]
          /\ UNCHANGED stop_file
    /\ UNCHANGED <<aux, cfg, files, bcast_msg>>

\* if stop_iteration: break
Decide(l, stop) ==
    IF stop
    THEN [l EXCEPT !.stop_iteration = stop, !.broke = TRUE,
                   !.pc = "level_end"]
    ELSE [l EXCEPT !.stop_iteration = stop, !.pc = "epoch_tail"]

\* stop_iteration = comm.bcast(stop_iteration, root=0), at the root
BcastRoot ==
    /\ cfg.mpi4py_is_ok
    /\ wk[0].pc = "bcast"
    /\ bcast_msg' = [r \in Ranks |->
                       IF r = 0 THEN bcast_msg[r]
                       ELSE Append(bcast_msg[r], wk[0].stop_iteration)]
    /\ wk' = [wk EXCEPT ![0] = Decide(@, wk[0].stop_iteration)]
    /\ UNCHANGED <<aux, cfg, files, stop_file>>

\* a rank keeping its own flag
LocalValue(w) == wk[w].stop_iteration

\* the value a rank other than the root returns from comm.bcast
BcastValue(w) == Head(bcast_msg[w])

BcastRecv(w) ==
    /\ cfg.mpi4py_is_ok
    /\ w # 0
    /\ wk[w].pc = "bcast"
    /\ bcast_msg[w] # <<>>
    /\ bcast_msg' = [bcast_msg EXCEPT ![w] = Tail(@)]
    /\ wk' = [wk EXCEPT ![w] = Decide(@, BcastValue(w))]
    /\ UNCHANGED <<aux, cfg, files, stop_file>>

\* without mpi4py: the flag is read back from '.stop_iteration'
ReadStopFile(w) ==
    /\ ~cfg.mpi4py_is_ok
    /\ wk[w].pc = "bcast"
    /\ wk' = [wk EXCEPT ![w] = Decide(@, stop_file = "True")]
    /\ UNCHANGED <<aux, cfg, files, stop_file, bcast_msg>>

(* The end of an epoch: rank 0 records the loss; comm.Barrier() *)

EpochTail(w) ==
    /\ wk[w].pc = "epoch_tail"
    /\ wk' = [wk EXCEPT ![w] =
                [(IF w = 0 THEN AppendLoss(@) ELSE @) EXCEPT
                          !.epoch = @ + 1,
                          !.pc = "bar_epoch"]]
    /\ UNCHANGED <<aux, cfg, files, stop_file, bcast_msg>>

-----------------------------------------------------------------------------
(* The end of a level: rank 0 saves the results; the variables are         *)
(* re-initialised, the session closed, initializer_flag = True             *)

EpochsRun(l) == IF l.broke THEN l.epoch + 1 ELSE l.epoch

LevelEnd(w) ==
    /\ wk[w].pc = "level_end"
    /\ files' = IF w = 0
                THEN {f \in files : f.ds # wk[w].ds_level} \cup
                     {[ds |-> wk[w].ds_level, shape |-> wk[w].obj_shape,
                       obj |-> ObjTensor(wk[w])]}
                ELSE files
    /\ wk' = [wk EXCEPT ![w] =
                [@ EXCEPT !.obj = wk[w].obj_init,
                          !.probe = wk[w].probe_init,
                          !.accum_grad = Zero, !.accum_grad_probe = 0,
                          !.built = FALSE,
                          !.initializer_flag = TRUE,
                          !.level = @ - 1,
                          !.done_levels =
                              Append(@, [ds |-> wk[w].ds_level,
                                         epochs |-> EpochsRun(wk[w]),
                                         broke |-> wk[w].broke,
                                         n_loop |-> wk[w].n_loop]),
                          !.pc = "level_head"]]
    /\ UNCHANGED <<aux, cfg, stop_file, bcast_msg>>

-----------------------------------------------------------------------------

Next ==
    \/ \E w \in Ranks : Startup(w)
    \/ \E w \in Ranks : LevelHead(w)
    \/ BarrierSync
    \/ \E w \in Ranks : BarrierPseudo(w)
    \/ \E w \in Ranks : LevelInit(w)
    \/ \E w \in Ranks : EpochHead(w)
    \/ \E w \in Ranks : ThetaHead(w)
    \/ Minibatch
    \/ \E w \in Ranks : CheckStop(w)
    \/ BcastRoot
    \/ \E w \in Ranks : BcastRecv(w)
    \/ \E w \in Ranks : ReadStopFile(w)
    \/ \E w \in Ranks : EpochTail(w)
    \/ \E w \in Ranks : LevelEnd(w)

Spec == Init /\ [][Next]_vars

-----------------------------------------------------------------------------
(* The index list of one epoch: permutation, padding, array_split, and the *)
(* shard of every worker for each batch fed to the dataset.                *)

MaxWorkers == 4     \* hvd.size() ranges over 1..MaxWorkers here

Min(a, b) == IF a < b THEN a ELSE b

\* a draw that may repeat an index
ChoiceWithReplacement(n, k) == [1 .. k -> 0 .. (n - 1)]

\* np.random.choice(range(n), k, replace=False), for k <= n
Choice(n, k) ==
    {q \in [1 .. k -> 0 .. (n - 1)] :
        \A i, j \in 1 .. k : i # j => q[i] # q[j]}

\* np.array_split(a, n)[j]: the first len(a) % n parts hold one entry more
ArraySplit(a, n) ==
    LET q == Len(a) \div n
        r == Len(a) % n
        start(j) == j * q + Min(j, r)
        size(j) == IF j < r THEN q + 1 ELSE q
    IN  [j \in 1 .. n |->
            SubSeq(a, start(j - 1) + 1, start(j - 1) + size(j - 1))]

\* Dataset.shard(num_shards, index): every num_shards-th element from index
Shard(a, num_shards, index) ==
    LET cnt == IF index < Len(a)
               THEN (Len(a) - index + num_shards - 1) \div num_shards
               ELSE 0
    IN  [k \in 1 .. cnt |-> a[(k - 1) * num_shards + index + 1]]

BatchConfigs ==
    {c \in [n_pos : 2 .. MaxPos, minibatch_size : 1 .. MaxPos,
            size : 1 .. MaxWorkers, n_theta : ThetaVals] :
        c.minibatch_size < c.n_pos}

InitBatch ==
    /\ bt \in {[pc |-> "permute", c |-> c, n_batch |-> NBatch(c),
                ind_list_rand |-> <<>>, batches |-> <<>>, i_theta |-> 0,
                i_batch |-> 0, fed |-> <<>>, fed_ls |-> <<>>,
                shards |-> <<>>, error |-> ""] :
               c \in BatchConfigs}
    /\ cfg = Base
    /\ wk = [w \in 0 .. (Base.size - 1) |-> InitLocal(Base)]
    /\ files = {}
    /\ stop_file = ""
    /\ bcast_msg = [w \in 0 .. (Base.size - 1) |-> <<>>]
    /\ dsd = Idle
    /\ kn = Idle
    /\ wv = Idle
    /\ ip = Idle
    /\ sh = Idle

\* ind_list_rand = np.random.choice(range(n_pos), n_pos, replace=False)
Permute ==
    /\ bt.pc = "permute"
    /\ \E q \in Choice(bt.c.n_pos, bt.c.n_pos) :
          bt' = [bt EXCEPT !.ind_list_rand = q, !.pc = "pad"]
    /\ UNCHANGED <<dvars, dsd, kn, wv, ip, sh>>

\* if float(n_pos) / minibatch_size / hvd.size() < n_batch: append ind_add
Pad ==
    /\ bt.pc = "pad"
    /\ \/ /\ bt.c.n_pos >= bt.n_batch * bt.c.minibatch_size * bt.c.size
          /\ bt' = [bt EXCEPT !.pc = "split"]
       \/ /\ bt.c.n_pos < bt.n_batch * bt.c.minibatch_size * bt.c.size
          /\ ~PadFails(bt.c)
          /\ \E ind_add \in Choice(bt.c.n_pos, PadCount(bt.c)) :
                bt' = [bt EXCEPT !.ind_list_rand = @ \o ind_add,
                                 !.pc = "split"]
       \/ /\ bt.c.n_pos < bt.n_batch * bt.c.minibatch_size * bt.c.size
          /\ PadFails(bt.c)
          /\ bt' = [bt EXCEPT
                      !.pc = "aborted",
                      !.error = "ValueError: larger sample than population"]
    /\ UNCHANGED <<dvars, dsd, kn, wv, ip, sh>>

\* ind_list_rand = np.array_split(ind_list_rand, n_batch)
Split ==
    /\ bt.pc = "split"
    /\ bt' = [bt EXCEPT !.batches = ArraySplit(bt.ind_list_rand, bt.n_batch),
                        !.pc = "feed"]
    /\ UNCHANGED <<dvars, dsd, kn, wv, ip, sh>>

\* for i_theta in range(n_theta): for i_batch in range(n_batch):
\* sess.run(prj_iter.initializer, feed_dict=...) for batch i_batch: the
\* placeholders hold minibatch_size * hvd.size() entries; every rank's
\* dataset keeps its shard of them.  fed_ls keeps, for every angle, the
\* batches fed so far
Feed ==
    /\ bt.pc = "feed"
    /\ \/ /\ bt.i_batch < bt.n_batch
          /\ Len(bt.batches[bt.i_batch + 1]) =
                bt.c.minibatch_size * bt.c.size
          /\ bt' = [bt EXCEPT
                      !.fed = bt.batches[bt.i_batch + 1],
                      !.fed_ls =
                          IF bt.i_batch = 0
                          THEN Append(@, <<bt.batches[1]>>)
                          ELSE [@ EXCEPT ![Len(@)] =
                                   Append(@, bt.batches[bt.i_batch + 1])],
                      !.shards = [r \in 0 .. (bt.c.size - 1) |->
                                    Shard(bt.batches[bt.i_batch + 1],
                                          bt.c.size, r)],
                      !.i_batch = @ + 1]
       \/ /\ bt.i_batch >= bt.n_batch
          /\ bt.i_theta + 1 < bt.c.n_theta
          /\ bt' = [bt EXCEPT !.i_theta = @ + 1, !.i_batch = 0]
       \/ /\ bt.i_batch >= bt.n_batch
          /\ bt.i_theta + 1 >= bt.c.n_theta
          /\ bt' = [bt EXCEPT !.pc = "done"]
    /\ UNCHANGED <<dvars, dsd, kn, wv, ip, sh>>

NextBatchSpec == Permute \/ Pad \/ Split \/ Feed

SpecBatch == InitBatch /\ [][NextBatchSpec]_vars

-----------------------------------------------------------------------------
(* The measured data of a level: prj_0 has the axes (angle, position, y,   *)
(* x); an array is represented by its shape and, for the two transverse    *)
(* axes, the indices of prj_0 its rows and columns come from.              *)

MaxDim == 4         \* the patterns are up to MaxDim x MaxDim pixels

\* the indices a[:n] selects on an axis of length len
FirstN(n, len) == [k \in 1 .. Min(n, len) |-> k - 1]

\* the indices a[::f] selects on an axis of length len
Stride(f, len) == [k \in 1 .. ((len + f - 1) \div f) |-> (k - 1) * f]

\* prj = prj_0; if ds_level > 1: prj = prj[:, :, :ds_level, ::ds_level]
DownsampleData(p, ds_level) ==
    IF ds_level > 1
    THEN [shape |-> <<p.shape[1], p.shape[2],
                      Min(ds_level, p.shape[3]),
                      (p.shape[4] + ds_level - 1) \div ds_level>>,
          rows |-> FirstN(ds_level, p.shape[3]),
          cols |-> Stride(ds_level, p.shape[4])]
    ELSE p

Prj0(n_theta, n_pos, y, x) ==
    [shape |-> <<n_theta, n_pos, y, x>>,
     rows |-> [k \in 1 .. y |-> k - 1],
     cols |-> [k \in 1 .. x |-> k - 1]]

InitData ==
    /\ dsd \in {[pc |-> "level", multiscale_level |-> l, level |-> l - 1,
                 ds_level |-> 0, prj_0 |-> Prj0(t, n, y, x),
                 prj |-> Prj0(t, n, y, x)] :
                l \in 1 .. MaxLevel, t \in ThetaVals, n \in 2 .. MaxPos,
                y \in 1 .. MaxDim, x \in 1 .. MaxDim}
    /\ cfg = Base
    /\ wk = [w \in 0 .. (Base.size - 1) |-> InitLocal(Base)]
    /\ files = {}
    /\ stop_file = ""
    /\ bcast_msg = [w \in 0 .. (Base.size - 1) |-> <<>>]
    /\ bt = Idle
    /\ kn = Idle
    /\ wv = Idle
    /\ ip = Idle
    /\ sh = Idle

\* one pass of the level loop, up to dim_y, dim_x = prj.shape[-2:]
DataLevel ==
    /\ dsd.pc = "level"
    /\ dsd.level >= 0
    /\ dsd' = [dsd EXCEPT
                 !.ds_level = LevelFactor(dsd.level),
                 !.prj = DownsampleData(dsd.prj_0, LevelFactor(dsd.level)),
                 !.level = @ - 1]
    /\ UNCHANGED <<dvars, bt, kn, wv, ip, sh>>

DataDone ==
    /\ dsd.pc = "level"
    /\ dsd.level < 0
    /\ dsd' = [dsd EXCEPT !.pc = "done"]
    /\ UNCHANGED <<dvars, bt, kn, wv, ip, sh>>

NextData == DataLevel \/ DataDone

SpecData == InitData /\ [][NextData]_vars

-----------------------------------------------------------------------------
(* multislice_propagate: the kernel of every per-slice step and of the     *)
(* free-space propagation.  Lengths are whole numbers of nanometres; the   *)
(* voxel is a cube of pitch psize, so mean_voxel_nm = psize.               *)

LambdaVals == {1, 2, 3}         \* lmbda_nm
PsizeVals == {1, 2}             \* voxel_nm[i]
FreeVals == {None, 1, 4, 9}     \* free_prop_cm, as dist_nm
GridVals == {<<1, 1, 1>>, <<2, 2, 1>>, <<2, 2, 2>>}

Cube(x) == x * x * x

\* mean_voxel_nm > crit_samp, where crit_samp = lmbda_nm * dist_nm / l and
\* l = np.prod(size_nm) ** (1. / 3): both sides times l, then cubed
AboveCritSamp(psize, obj_shape, lmbda_nm, dist_nm) ==
    Cube(psize) * (obj_shape[1] * psize * obj_shape[2] * psize
                     * obj_shape[3] * psize)
        > Cube(lmbda_nm * dist_nm)

\* the h used by modulate_and_propagate: the argument, built with
\* get_kernel by the caller; get_kernel builds the transfer function
SliceKernel(k) == [form |-> "TF", dist_nm |-> k.psize]

InitKernel ==
    /\ kn \in {[pc |-> "slices", lmbda_nm |-> l, psize |-> p,
                obj_shape |-> g, free_prop |-> f, n_slice |-> g[3],
                i |-> 0, steps |-> <<>>] :
               l \in LambdaVals, p \in PsizeVals, g \in GridVals,
               f \in FreeVals}
    /\ cfg = Base
    /\ wk = [w \in 0 .. (Base.size - 1) |-> InitLocal(Base)]
    /\ files = {}
    /\ stop_file = ""
    /\ bcast_msg = [w \in 0 .. (Base.size - 1) |-> <<>>]
    /\ bt = Idle
    /\ dsd = Idle
    /\ wv = Idle
    /\ ip = Idle
    /\ sh = Idle

\* one pass of tf.while_loop over modulate_and_propagate
ModulateAndPropagate ==
    /\ kn.pc = "slices"
    /\ kn.i < kn.n_slice
    /\ \/ /\ AboveCritSamp(kn.psize, kn.obj_shape, kn.lmbda_nm, kn.psize)
          /\ kn' = [kn EXCEPT
                      !.steps = Append(@, [step |-> "slice",
                                           order |-> "fft-shift-h",
                                           h |-> SliceKernel(kn)]),
                      !.i = @ + 1]
       \/ /\ ~AboveCritSamp(kn.psize, kn.obj_shape, kn.lmbda_nm, kn.psize)
          /\ kn' = [kn EXCEPT
                      !.steps = Append(@, [step |-> "slice",
                                           order |-> "shift-fft-h",
                                           h |-> SliceKernel(kn)]),
                      !.i = @ + 1]
    /\ UNCHANGED <<dvars, bt, dsd, wv, ip, sh>>

\* if free_prop_cm is not None: the kernel by algorithm, 'TF' or 'IR'
FreePropagate ==
    /\ kn.pc = "slices"
    /\ kn.i >= kn.n_slice
    /\ \/ /\ kn.free_prop = None
          /\ kn' = [kn EXCEPT !.pc = "done"]
       \/ /\ kn.free_prop # None
          /\ AboveCritSamp(kn.psize, kn.obj_shape, kn.lmbda_nm, kn.free_prop)
          /\ kn' = [kn EXCEPT
                      !.steps = Append(@, [step |-> "free",
                                           order |-> "fft-shift-h",
                                           h |-> [form |-> "TF",
                                                  dist_nm |-> kn.free_prop]]),
                      !.pc = "done"]
       \/ /\ kn.free_prop # None
          /\ ~AboveCritSamp(kn.psize, kn.obj_shape, kn.lmbda_nm,
                            kn.free_prop)
          /\ kn' = [kn EXCEPT
                      !.steps = Append(@, [step |-> "free",
                                           order |-> "fft-shift-h",
                                           h |-> [form |-> "IR",
                                                  dist_nm |-> kn.free_prop]]),
                      !.pc = "done"]
    /\ UNCHANGED <<dvars, bt, dsd, wv, ip, sh>>

NextKernel == ModulateAndPropagate \/ FreePropagate

SpecKernel == InitKernel /\ [][NextKernel]_vars

-----------------------------------------------------------------------------
(* multislice_propagate: the values of the wavefront.  The wavefront has   *)
(* 3 x 1 pixels, so that tf.fft2d is the transform of three points; with   *)
(* w = exp(2 pi i / 3) every value is a number a + b w over a power of 3,  *)
(* written <<a, b>>, exactly.  The inputs are those for which the kernel   *)
(* and the transmission are such numbers: phases that are multiples of     *)
(* pi / 3, absorptions that are powers of 1 / 3.  free_prop_cm is None, as *)
(* in the calls of the driver.                                             *)

MaxSlice == 2       \* the object has 1..MaxSlice slices

WaveShape == <<3, 1>>               \* obj_shape[0:2]
WavePsizeVals == {3}                \* voxel_nm[i]
WaveLambdaVals == {4, 8, 12, 24}    \* lmbda_nm
WaveProbeVals == {<<0, 0>>, <<1, 0>>, <<0, 1>>, <<-1, 0>>}
\* a slice, the same at its three pixels: k * delta in units of pi / 3 and
\* k * beta in units of ln 3
WaveSliceVals == {[kdelta |-> 0, kbeta |-> 0], [kdelta |-> 1, kbeta |-> 0],
                  [kdelta |-> 0, kbeta |-> 1]}

EAdd(x, y) == <<x[1] + y[1], x[2] + y[2]>>

\* (a + b w)(c + d w), with w^2 = -1 - w
EMul(x, y) == <<x[1] * y[1] - x[2] * y[2],
                x[1] * y[2] + x[2] * y[1] - x[2] * y[2]>>

\* |a + b w|^2
ENorm(x) == x[1] * x[1] - x[1] * x[2] + x[2] * x[2]

\* w^k
Omega(k) == CASE k % 3 = 0 -> <<1, 0>>
              [] k % 3 = 1 -> <<0, 1>>
              [] k % 3 = 2 -> <<-1, -1>>

\* exp(-i pi j / 3) = (-w)^j
ExpMinus(j) == CASE j % 6 = 0 -> <<1, 0>>
                 [] j % 6 = 1 -> <<0, -1>>
                 [] j % 6 = 2 -> <<-1, -1>>
                 [] j % 6 = 3 -> <<-1, 0>>
                 [] j % 6 = 4 -> <<0, 1>>
                 [] j % 6 = 5 -> <<1, 1>>

\* exp(i pi j / 3)
ExpPlus(j) == ExpMinus(6 - (j % 6))

RECURSIVE ESum(_, _)
ESum(f, n) == IF n = 0 THEN <<0, 0>> ELSE EAdd(f[n], ESum(f, n - 1))

\* tf.fft2d on a column: X[k] = sum over n of x[n] * exp(-2 pi i k n / N)
Fft2d(x) ==
    LET N == Len(x)
    IN  [k \in 1 .. N |->
            ESum([n \in 1 .. N |->
                     EMul(x[n], Omega(2 * (k - 1) * (n - 1)))], N)]

\* tf.ifft2d on a column, times N: sum over k of X[k] * exp(2 pi i k n / N)
Ifft2dTimesN(X) ==
    LET N == Len(X)
    IN  [n \in 1 .. N |->
            ESum([k \in 1 .. N |->
                     EMul(X[k], Omega((k - 1) * (n - 1)))], N)]

\* fftshift: p2 = (n + 1) // 2, the entries from p2 on, then the first p2
Fftshift(t) ==
    LET p2 == (Len(t) + 1) \div 2
    IN  SubSeq(t, p2 + 1, Len(t)) \o SubSeq(t, 1, p2)

\* the shift of fftshift in the place of its inverse
ShiftAgain(t) == Fftshift(t)

\* ifftshift: p2 = n - (n + 1) // 2
Ifftshift(t) ==
    LET p2 == Len(t) - (Len(t) + 1) \div 2
    IN  SubSeq(t, p2 + 1, Len(t)) \o SubSeq(t, 1, p2)

\* np.linspace(-max, max, n)[i] squared, in units of max^2
MeshSq(i, n) ==
    IF n = 1 THEN 1
    ELSE ((2 * i - (n - 1)) * (2 * i - (n - 1))) \div ((n - 1) * (n - 1))

\* a kernel that damps the highest frequencies
DampedKernel(dist_nm, lmbda_nm, voxel_nm, grid_shape) ==
    [i \in 1 .. grid_shape[1] |->
        IF MeshSq(i - 1, grid_shape[1]) = 0 THEN <<1, 0>> ELSE <<0, 0>>]

\* get_kernel: H = exp(-i pi lmbda dist (u^2 + v^2)), u_max = v_max =
\* 1 / (2 voxel); the column of the grid's single u
GetKernel(dist_nm, lmbda_nm, voxel_nm, grid_shape) ==
    [i \in 1 .. grid_shape[1] |->
        ExpMinus((3 * lmbda_nm * dist_nm
                    * (MeshSq(i - 1, grid_shape[1]) + MeshSq(0, grid_shape[2])))
                 \div (4 * voxel_nm * voxel_nm))]

\* wavefront * h, entry by entry
TimesKernel(t, h) == [i \in 1 .. Len(t) |-> EMul(t[i], h[i])]

\* wavefront = wavefront * c, c = tf.exp(1j * k * delta) * tf.exp(-k * beta)
Modulate(wave, slice) ==
    [num |-> [i \in 1 .. Len(wave.num) |->
                 EMul(wave.num[i], ExpPlus(slice.kdelta))],
     pow |-> wave.pow + slice.kbeta]

\* if mean_voxel_nm > crit_samp:
\*     tf.ifft2d(ifftshift(fftshift(tf.fft2d(wavefront)) * h))
\* else: ifftshift(tf.ifft2d(tf.fft2d(fftshift(wavefront)) * h))
Propagate(wave, h, above) ==
    [num |-> IF above
             THEN Ifft2dTimesN(Ifftshift(TimesKernel(
                      Fftshift(Fft2d(wave.num)), h)))
             ELSE Ifftshift(Ifft2dTimesN(TimesKernel(
                      Fft2d(Fftshift(wave.num)), h))),
     pow |-> wave.pow + 1]

\* the sum over the pixels of |value|^2, for numerators
Energy(num) == ESum([i \in 1 .. Len(num) |-> <<ENorm(num[i]), 0>>],
                    Len(num))[1]

RECURSIVE Pow(_, _)
Pow(b, e) == IF e = 0 THEN 1 ELSE b * Pow(b, e - 1)

InitWave ==
    /\ wv \in {[pc |-> "slices", lmbda_nm |-> l, psize |-> ps,
                obj_shape |-> <<WaveShape[1], WaveShape[2], Len(g)>>,
                grid |-> g, h_given |-> hg, probe |-> pr,
                wavefront |-> [num |-> pr, pow |-> 0],
                i |-> 0, trace |-> <<>>, error |-> ""] :
               l \in WaveLambdaVals, ps \in WavePsizeVals,
               g \in UNION {[1 .. n -> WaveSliceVals] : n \in 1 .. MaxSlice},
               hg \in BOOLEAN,
               pr \in [1 .. WaveShape[1] -> WaveProbeVals]}
    /\ cfg = Base
    /\ wk = [w \in 0 .. (Base.size - 1) |-> InitLocal(Base)]
    /\ files = {}
    /\ stop_file = ""
    /\ bcast_msg = [w \in 0 .. (Base.size - 1) |-> <<>>]
    /\ bt = Idle
    /\ dsd = Idle
    /\ kn = Idle
    /\ ip = Idle
    /\ sh = Idle

\* one pass of tf.while_loop over modulate_and_propagate, h being the
\* kernel the caller built with get_kernel for one slice; trace keeps the
\* slices grid_delta[:, :, i] and grid_beta[:, :, i] the passes have read
ModulateWave ==
    /\ wv.pc = "slices"
    /\ wv.h_given
    /\ wv.i < Len(wv.grid)
    /\ wv' = [wv EXCEPT
                !.wavefront =
                    Propagate(Modulate(wv.wavefront, wv.grid[wv.i + 1]),
                              GetKernel(wv.psize, wv.lmbda_nm, wv.psize,
                                        wv.obj_shape),
                              AboveCritSamp(wv.psize, wv.obj_shape,
                                            wv.lmbda_nm, wv.psize)),
                !.trace = Append(@, wv.i),
                !.i = @ + 1]
    /\ UNCHANGED <<dvars, bt, dsd, kn, ip, sh>>

\* h is None: get_kernel's result is bound to the name kernel, and the
\* body of the loop multiplies by h
WaveTypeError ==
    /\ wv.pc = "slices"
    /\ ~wv.h_given
    /\ wv' = [wv EXCEPT !.pc = "aborted",
                        !.error = "TypeError: unsupported operand NoneType"]
    /\ UNCHANGED <<dvars, bt, dsd, kn, ip, sh>>

\* return wavefront
WaveReturn ==
    /\ wv.pc = "slices"
    /\ wv.h_given
    /\ wv.i >= Len(wv.grid)
    /\ wv' = [wv EXCEPT !.pc = "done"]
    /\ UNCHANGED <<dvars, bt, dsd, kn, ip, sh>>

NextWave == ModulateWave \/ WaveTypeError \/ WaveReturn

SpecWave == InitWave /\ [][NextWave]_vars

-----------------------------------------------------------------------------
(* biliniear_interpolation_3d(data, warp) for one point of warp; every     *)
(* operation of the function acts on the points of warp one by one.        *)
(* Coordinates are kept in half voxels, so that a point has integer or     *)
(* half-integer coordinates, and the value returned is kept times 8.  The  *)
(* points lie up to one voxel outside the field: -1 <= warp[d] <= shape[d].*)
(* tf.gather_nd with an index outside the tensor raises on a CPU and reads *)
(* 0 on a GPU.                                                             *)

InterpShape == <<3, 2, 2>>          \* data.shape
PolyCoefVals == {0, 1}              \* coefficients of a trilinear field

Idx(shape) ==
    {<<i, j, k>> : i \in 0 .. (shape[1] - 1), j \in 0 .. (shape[2] - 1),
                   k \in 0 .. (shape[3] - 1)}

\* the monomials 1, x, y, z, xy, xz, yz, xyz at the point q
Monomials(q) ==
    <<1, q[1], q[2], q[3], q[1] * q[2], q[1] * q[3], q[2] * q[3],
      q[1] * q[2] * q[3]>>

Dot(a, m) ==
    a[1] * m[1] + a[2] * m[2] + a[3] * m[3] + a[4] * m[4]
        + a[5] * m[5] + a[6] * m[6] + a[7] * m[7] + a[8] * m[8]

\* the field whose values are the trilinear polynomial of coefficients b
FieldOf(b, shape) == [q \in Idx(shape) |-> Dot(b, Monomials(q))]

\* the field that is 1 at the voxel at and 0 elsewhere
DeltaField(at, shape) == [q \in Idx(shape) |-> IF q = at THEN 1 ELSE 0]

\* a padding that repeats the last voxel twice and none before the first
PadAtEnd(data, shape) ==
    [q \in Idx(<<shape[1] + 2, shape[2] + 2, shape[3] + 2>>) |->
        data[<<IF q[1] > shape[1] - 1 THEN shape[1] - 1 ELSE q[1],
               IF q[2] > shape[2] - 1 THEN shape[2] - 1 ELSE q[2],
               IF q[3] > shape[3] - 1 THEN shape[3] - 1 ELSE q[3]>>]]

\* the index of data that tf.pad(..., mode='SYMMETRIC') by 1 puts at i
Mirror(i, n) == IF i = 0 THEN 0 ELSE IF i = n + 1 THEN n - 1 ELSE i - 1

\* tf.pad(data, [[1, 1], [1, 1], [1, 1]], mode='SYMMETRIC')
PadSymmetric(data, shape) ==
    [q \in Idx(<<shape[1] + 2, shape[2] + 2, shape[3] + 2>>) |->
        data[<<Mirror(q[1], shape[1]), Mirror(q[2], shape[2]),
               Mirror(q[3], shape[3])>>]]

\* a stack of the neighbours with c100 and c010 exchanged
StackedSwapped ==
    <<<<0, 0, 0>>, <<0, 1, 0>>, <<1, 0, 0>>, <<1, 1, 0>>,
      <<0, 0, 1>>, <<1, 0, 1>>, <<0, 1, 1>>, <<1, 1, 1>>>>

\* the offsets of the neighbours as c stacks them:
\* c000, c100, c010, c110, c001, c101, c011, c111
Stacked ==
    <<<<0, 0, 0>>, <<1, 0, 0>>, <<0, 1, 0>>, <<1, 1, 0>>,
      <<0, 0, 1>>, <<1, 0, 1>>, <<0, 1, 1>>, <<1, 1, 1>>>>

\* the offsets of the points of the rows h1 .. h8 of h: x0 or x1, y0 or
\* y1, z0 or z1
Corners ==
    <<<<0, 0, 0>>, <<1, 0, 0>>, <<0, 1, 0>>, <<1, 1, 0>>,
      <<0, 0, 1>>, <<1, 0, 1>>, <<0, 1, 1>>, <<1, 1, 1>>>>

\* the exponents of the columns of h: 1, x, y, z, xy, xz, yz, xyz
Exponents ==
    <<<<0, 0, 0>>, <<1, 0, 0>>, <<0, 1, 0>>, <<0, 0, 1>>,
      <<1, 1, 0>>, <<1, 0, 1>>, <<0, 1, 1>>, <<1, 1, 1>>>>

\* the inverse of [[1, lo], [1, hi]] is [[hi, -lo], [-1, 1]], hi = lo + 1:
\* its entry in the row of x^e and the column of the neighbour at offset o
InvEntry(e, o, lo, hi) ==
    CASE e = 0 /\ o = 0 -> hi
      [] e = 0 /\ o = 1 -> -lo
      [] e = 1 /\ o = 0 -> -1
      [] e = 1 /\ o = 1 -> 1

\* a = tf.matmul(tf.matrix_inverse(h), c): h is the product over the three
\* axes of [[1, lo], [1, hi]], its inverse the product of their inverses
Fit(c, lo, hi) ==
    [m \in 1 .. 8 |->
        Dot(c, [n \in 1 .. 8 |->
                   InvEntry(Exponents[m][1], Corners[n][1], lo[1], hi[1])
                 * InvEntry(Exponents[m][2], Corners[n][2], lo[2], hi[2])
                 * InvEntry(Exponents[m][3], Corners[n][3], lo[3], hi[3])])]

\* h times a: the fitted function at the eight neighbours
AtNeighbours(a, lo) ==
    [n \in 1 .. 8 |->
        Dot(a, Monomials(<<lo[1] + Corners[n][1], lo[2] + Corners[n][2],
                           lo[3] + Corners[n][3]>>))]

\* 8 times a[0] + a[1] x + a[2] y + a[3] z + a[4] x y + a[5] x z
\* + a[6] y z + a[7] x y z, at the point of half-voxel coordinates w2
Eval8(a, w2) ==
    8 * a[1] + 4 * (a[2] * w2[1] + a[3] * w2[2] + a[4] * w2[3])
        + 2 * (a[5] * w2[1] * w2[2] + a[6] * w2[1] * w2[3]
                 + a[7] * w2[2] * w2[3])
        + a[8] * w2[1] * w2[2] * w2[3]

\* tf.floor of a coordinate given in half voxels
FloorHalf(w2) == w2 \div 2

\* the trilinear fields of at most two terms
PolyCoefs ==
    {b \in [1 .. 8 -> PolyCoefVals] :
        Cardinality({m \in 1 .. 8 : b[m] # 0}) <= 2}

InterpFields ==
    {[data |-> FieldOf(b, InterpShape), poly |-> b] : b \in PolyCoefs}
    \cup {[data |-> DeltaField(at, InterpShape), poly |-> <<>>] :
            at \in Idx(InterpShape)}

InterpPoints ==
    {<<x, y, z>> : x \in -2 .. (2 * InterpShape[1]),
                   y \in -2 .. (2 * InterpShape[2]),
                   z \in -2 .. (2 * InterpShape[3])}

\* i is an index of the tensor padded by 1 on every side
InPadded(i, shape) == \A d \in 1 .. 3 : i[d] >= 0 /\ i[d] <= shape[d] + 1

\* i000, i100, i010, ..., i111 in the order c stacks their values
Neighbours(i000) ==
    [n \in 1 .. 8 |-> <<i000[1] + Stacked[n][1], i000[2] + Stacked[n][2],
                        i000[3] + Stacked[n][3]>>]

\* tf.gather_nd(data, i) where it does not raise
GatherNd(data, shape, i) == IF InPadded(i, shape) THEN data[i] ELSE 0

InitInterp ==
    /\ ip \in {[pc |-> "call", data |-> fd.data, poly |-> fd.poly,
                shape |-> InterpShape, warp |-> w2,
                c |-> <<>>, a |-> <<>>, i000 |-> <<>>, f8 |-> 0,
                error |-> ""] :
               fd \in InterpFields, w2 \in InterpPoints}
    /\ cfg = Base
    /\ wk = [w \in 0 .. (Base.size - 1) |-> InitLocal(Base)]
    /\ files = {}
    /\ stop_file = ""
    /\ bcast_msg = [w \in 0 .. (Base.size - 1) |-> <<>>]
    /\ bt = Idle
    /\ dsd = Idle
    /\ kn = Idle
    /\ wv = Idle
    /\ sh = Idle

\* the call: pad, shift warp by 1, gather the neighbours, fit, evaluate;
\* every tensor of the call is computed once
Interpolate ==
    /\ ip.pc = "call"
    /\ LET warp == <<ip.warp[1] + 2, ip.warp[2] + 2, ip.warp[3] + 2>>
           i000 == <<FloorHalf(warp[1]), FloorHalf(warp[2]),
                     FloorHalf(warp[3])>>
           i111 == <<i000[1] + 1, i000[2] + 1, i000[3] + 1>>
       IN  \E data \in {PadSymmetric(ip.data, ip.shape)} :
           \E c \in {[n \in 1 .. 8 |->
                         GatherNd(data, ip.shape, Neighbours(i000)[n])]} :
           \E a \in {Fit(c, i000, i111)} :
              \/ /\ \A n \in 1 .. 8 : InPadded(Neighbours(i000)[n], ip.shape)
                 /\ ip' = [ip EXCEPT !.c = c, !.a = a, !.i000 = i000,
                                     !.f8 = Eval8(a, warp), !.pc = "done"]
              \/ /\ \E n \in 1 .. 8 :
                       ~InPadded(Neighbours(i000)[n], ip.shape)
                 /\ ip' = [ip EXCEPT
                             !.i000 = i000, !.pc = "aborted",
                             !.error = "InvalidArgumentError: indices"]
              \/ /\ \E n \in 1 .. 8 :
                       ~InPadded(Neighbours(i000)[n], ip.shape)
                 /\ ip' = [ip EXCEPT
                             !.c = c, !.a = a, !.i000 = i000,
                             !.f8 = Eval8(a, warp), !.pc = "done",
                             !.error = "zeros read outside the tensor"]
    /\ UNCHANGED <<dvars, bt, dsd, kn, wv, sh>>

NextInterp == Interpolate

SpecInterp == InitInterp /\ [][NextInterp]_vars

-----------------------------------------------------------------------------
(* fftshift and ifftshift on tensors of one and two axes.  A tensor of two *)
(* axes is the sequence of its rows; its entries are the indices they have *)
(* in the tensor the shifts start from, so that what holds of it holds of  *)
(* every tensor of its shape.                                              *)

MaxShift == 4       \* an axis has 1..MaxShift entries
MaxShiftOps == 2    \* up to MaxShiftOps shifts are applied in a row

\* for i in range(ndim): the shift of fftshift along every axis
FftshiftN(tensor, ndim) ==
    IF ndim = 1 THEN Fftshift(tensor)
    ELSE LET t0 == Fftshift(tensor)
         IN  [r \in 1 .. Len(t0) |-> Fftshift(t0[r])]

\* for i in range(ndim): the shift of ifftshift along every axis
IfftshiftN(tensor, ndim) ==
    IF ndim = 1 THEN Ifftshift(tensor)
    ELSE LET t0 == Ifftshift(tensor)
         IN  [r \in 1 .. Len(t0) |-> Ifftshift(t0[r])]

\* the tensor of a shape whose entries are their own indices
IndexTensor(shape) ==
    IF Len(shape) = 1
    THEN [i \in 1 .. shape[1] |-> <<i - 1>>]
    ELSE [i \in 1 .. shape[1] |-> [j \in 1 .. shape[2] |-> <<i - 1, j - 1>>]]

ShiftShapes ==
    {<<n>> : n \in 1 .. MaxShift}
    \cup {<<n, m>> : n \in 1 .. MaxShift, m \in 1 .. MaxShift}

InitShift ==
    /\ \E shape \in ShiftShapes :
          sh = [pc |-> "shift", shape |-> shape, x |-> IndexTensor(shape),
                y |-> IndexTensor(shape), ops |-> <<>>]
    /\ cfg = Base
    /\ wk = [w \in 0 .. (Base.size - 1) |-> InitLocal(Base)]
    /\ files = {}
    /\ stop_file = ""
    /\ bcast_msg = [w \in 0 .. (Base.size - 1) |-> <<>>]
    /\ bt = Idle
    /\ dsd = Idle
    /\ kn = Idle
    /\ wv = Idle
    /\ ip = Idle

\* y = fftshift(y)
ApplyFftshift ==
    /\ sh.pc = "shift"
    /\ Len(sh.ops) < MaxShiftOps
    /\ sh' = [sh EXCEPT !.y = FftshiftN(@, Len(sh.shape)),
                        !.ops = Append(@, "fftshift")]
    /\ UNCHANGED <<dvars, bt, dsd, kn, wv, ip>>

\* y = ifftshift(y)
ApplyIfftshift ==
    /\ sh.pc = "shift"
    /\ Len(sh.ops) < MaxShiftOps
    /\ sh' = [sh EXCEPT !.y = IfftshiftN(@, Len(sh.shape)),
                        !.ops = Append(@, "ifftshift")]
    /\ UNCHANGED <<dvars, bt, dsd, kn, wv, ip>>

NextShift == ApplyFftshift \/ ApplyIfftshift

SpecShift == InitShift /\ [][NextShift]_vars

-----------------------------------------------------------------------------
(* Properties of the driver, checked under Spec *)

Running == {"epoch_head", "theta_head", "batch", "check", "bar_conv",
            "bcast", "epoch_tail", "bar_epoch", "level_end"}

\* C1: after every optimizer update, at every level, every voxel of the
\* object variable the forward model and the optimizer operate on is >= 0,
\* in both channels.
C1_ObjectNonNegative ==
    \A w \in DOMAIN wk :
        wk[w].n_update > 0 =>
            /\ wk[w].obj.delta >= 0
            /\ wk[w].obj.beta >= 0

\* (cur - prev) / prev lies strictly inside (-crit_conv_rate, 0)
InRange(cur, prev) ==
    /\ prev > 0
    /\ cur < prev
    /\ crit_conv_rate.den * (prev - cur) < crit_conv_rate.num * prev

\* the statement of C2 for the process of rank 0, which decides
StopsExactlyInRange(l) ==
    cfg.n_epochs = Auto =>
        /\ l.pc = "epoch_tail" =>
              /\ ~l.crit
              /\ Len(l.loss_ls) = 0 \/ ~InRange(l.current_loss, Last(l.loss_ls))
        /\ (l.pc = "level_end" /\ l.broke) =>
              /\ Len(l.loss_ls) >= 2
              /\ Last(l.loss_ls) = l.current_loss
              /\ InRange(l.loss_ls[Len(l.loss_ls)],
                         l.loss_ls[Len(l.loss_ls) - 1])

\* C2, as stated: with the budget 'auto' a level stops at the end of an
\* epoch exactly when the relative change of the loss against the previous
\* epoch lies strictly inside (-crit_conv_rate, 0), on every path.
C2_StopsExactlyInRange_AnyPath == StopsExactlyInRange(wk[0])

\* C2, amended: the same, on the collective path (mpi4py available) or
\* with a single worker: a level continues past an epoch only when the
\* change is out of the range, and stops early only when it is in it.
C2_StopsExactlyInRange ==
    (cfg.mpi4py_is_ok \/ cfg.size = 1) => StopsExactlyInRange(wk[0])

\* C2: a level that went on after one check and stopped at the next
C2_Witness ==
    /\ cfg.n_epochs = Auto
    /\ cfg.mpi4py_is_ok
    /\ wk[0].pc = "level_end"
    /\ wk[0].broke
    /\ wk[0].crit
    /\ Len(wk[0].loss_ls) = 3

\* C3: on the collective path only rank 0 computes the stop decision; a
\* rank reads it after the barrier that follows rank 0's check; in every
\* epoch all workers take the same decision, and no two workers finish a
\* level with different numbers of epochs.
C3_SameDecisionEverywhere ==
    cfg.mpi4py_is_ok =>
        /\ \A w \in DOMAIN wk : w # 0 => ~wk[w].crit
        /\ \A w \in DOMAIN wk :
              (wk[w].pc = "bcast"
                 /\ Len(wk[0].done_levels) = Len(wk[w].done_levels)
                 /\ wk[0].epoch = wk[w].epoch)
                  => wk[0].pc \in {"bcast", "epoch_tail", "bar_epoch",
                                   "level_end"}
        /\ \A w1, w2 \in DOMAIN wk :
              (/\ wk[w1].pc \in {"epoch_tail", "level_end"}
               /\ wk[w2].pc \in {"epoch_tail", "level_end"}
               /\ Len(wk[w1].done_levels) = Len(wk[w2].done_levels)
               /\ wk[w1].epoch = wk[w2].epoch)
                  => wk[w1].stop_iteration = wk[w2].stop_iteration
        /\ \A w1, w2 \in DOMAIN wk :
              \A i \in 1 .. Min(Len(wk[w1].done_levels),
                                Len(wk[w2].done_levels)) :
                  /\ wk[w1].done_levels[i].epochs
                        = wk[w2].done_levels[i].epochs
                  /\ wk[w1].done_levels[i].broke
                        = wk[w2].done_levels[i].broke

\* C3: two workers that left a level early, on the broadcast decision
C3_Witness ==
    /\ cfg.mpi4py_is_ok
    /\ cfg.size = 2
    /\ \A w \in DOMAIN wk :
          /\ Len(wk[w].done_levels) = 1
          /\ wk[w].done_levels[1].broke
          /\ wk[w].done_levels[1].epochs < wk[w].done_levels[1].n_loop

\* the epoch budget of a level as C4 states it
StatedBudget(c, ds) ==
    IF c.n_epochs = Auto THEN c.max_nepochs
    ELSE IF ds = 1 /\ c.n_epoch_final_pass # None THEN c.n_epoch_final_pass
    ELSE c.n_epochs

\* the same, with n_epoch_final_pass replacing max_nepochs as well
FinalPassBudget(c, ds) ==
    IF ds = 1 /\ c.n_epoch_final_pass # None THEN c.n_epoch_final_pass
    ELSE IF c.n_epochs = Auto THEN c.max_nepochs
    ELSE c.n_epochs

\* a level's record against a budget: exactly the budget when it is fixed,
\* at most the budget with 'auto', and fewer only after the criterion fired
WithinBudget(d, b) ==
    /\ cfg.n_epochs # Auto => (d.epochs = b /\ ~d.broke)
    /\ cfg.n_epochs = Auto => (d.epochs <= b /\ (d.epochs < b => d.broke))

\* a run that ended has gone through multiscale_level levels, factor 1 last
EndsAfterFinest(l) ==
    l.pc = "done" =>
        /\ Len(l.done_levels) = cfg.multiscale_level
        /\ l.done_levels[Len(l.done_levels)].ds = 1

CeilDiv(a, b) == (a + b - 1) \div b

\* the updates due after n minibatches: one per window of A, and one for
\* the shorter window that closes an angle's batches
UpdatesDue(n, n_batch, A) ==
    (n \div n_batch) * CeilDiv(n_batch, A) + (n % n_batch) \div A

\* C5, as stated: with A > 1 the object is updated once per window and
\* never in between, every update carrying the gradients of exactly A
\* minibatches; with A = 1 it is updated once per minibatch.
C5_UpdatePerWindow_AsStated ==
    \A w \in DOMAIN wk :
        wk[w].pc \in Running =>
            /\ cfg.n_batch_per_update = 1 =>
                  wk[w].n_update = wk[w].n_minibatch
            /\ cfg.n_batch_per_update > 1 =>
                  /\ wk[w].last_window \in {0, cfg.n_batch_per_update}
                  /\ wk[w].n_accum < cfg.n_batch_per_update

\* C5, amended: with A > 1 every update carries the gradients of the A
\* minibatches since the previous one, or of the n_batch mod A that remain
\* when an angle's batches end; nothing stays accumulated across angles;
\* with A = 1 there is one update per minibatch.
C5_UpdatePerWindow ==
    \A w \in DOMAIN wk :
        wk[w].pc \in Running =>
            /\ cfg.n_batch_per_update = 1 =>
                  wk[w].n_update = wk[w].n_minibatch
            /\ cfg.n_batch_per_update > 1 =>
                  /\ wk[w].last_window \in
                        {0, cfg.n_batch_per_update,
                         wk[w].n_batch % cfg.n_batch_per_update}
                  /\ wk[w].n_accum < cfg.n_batch_per_update
                  /\ wk[w].n_accum = wk[w].batch_counter
                  /\ wk[w].pc # "batch" => wk[w].n_accum = 0
                  /\ wk[w].n_update =
                        UpdatesDue(wk[w].n_minibatch, wk[w].n_batch,
                                   cfg.n_batch_per_update)

\* C5: an update of a single minibatch closing an angle of three, A = 2
C5_Witness ==
    /\ cfg.n_batch_per_update = 2
    /\ wk[0].pc = "theta_head"
    /\ wk[0].n_batch = 3
    /\ wk[0].n_minibatch = 3
    /\ wk[0].n_update = 2
    /\ wk[0].last_window = 1

C9_NextLevelInit ==
    \A w \in DOMAIN wk :
        wk[w].initializer_flag =>
            /\ wk[w].error # "ValueError: operands could not be broadcast together"
            /\ wk[w].pc \in Running => wk[w].obj_shape = cfg.obj_size

-----------------------------------------------------------------------------
(* Properties of the index list, checked under SpecBatch *)

\* C6: for every n_pos, every minibatch_size < n_pos and every worker
\* count W, the permuted index list of an epoch is padded to
\* n_batch * minibatch_size * W entries and split into n_batch batches of
\* exactly minibatch_size * W entries, and every worker's shard of a batch
\* holds exactly minibatch_size positions.
C6_PaddedAndSplit ==
    /\ bt.pc \in {"split", "feed", "done", "aborted"} =>
          Len(bt.ind_list_rand) =
              CeilDiv(bt.c.n_pos, bt.c.minibatch_size * bt.c.size)
                  * bt.c.minibatch_size * bt.c.size
    /\ bt.pc \in {"feed", "done"} =>
          /\ Len(bt.batches) =
                CeilDiv(bt.c.n_pos, bt.c.minibatch_size * bt.c.size)
          /\ \A j \in 1 .. Len(bt.batches) :
                Len(bt.batches[j]) = bt.c.minibatch_size * bt.c.size
    /\ (bt.pc \in {"feed", "done"} /\ bt.i_batch > 0) =>
          \A r \in DOMAIN bt.shards :
              Len(bt.shards[r]) = bt.c.minibatch_size

(* Properties of the measured data, checked under SpecData *)

\* C8: at a level of factor f > 1 the patterns used are the original ones
\* sampled with stride f along both transverse axes, ceil(H/f) x ceil(W/f)
\* samples, the angle and position axes untouched; at f = 1 they are the
\* original data.
C8_StridedData ==
    (dsd.pc \in {"level", "done"} /\ dsd.ds_level >= 1) =>
        LET f == dsd.ds_level
            H == dsd.prj_0.shape[3]
            W == dsd.prj_0.shape[4]
        IN  /\ dsd.prj.shape = <<dsd.prj_0.shape[1], dsd.prj_0.shape[2],
                                 CeilDiv(H, f), CeilDiv(W, f)>>
            /\ dsd.prj.rows = [k \in 1 .. CeilDiv(H, f) |-> (k - 1) * f]
            /\ dsd.prj.cols = [k \in 1 .. CeilDiv(W, f) |-> (k - 1) * f]

(* Properties of the propagation, checked under SpecKernel *)

\* C10: every propagation step, per slice or in free space, uses the TF
\* form of the kernel if and only if the mean voxel pitch m is strictly
\* greater than s = lambda * d / (physical size)^(1/3), and the IR form
\* otherwise, m = s included.
C10_KernelRule ==
    kn.pc # "idle" =>
        \A i \in 1 .. Len(kn.steps) :
            kn.steps[i].h.form =
                IF AboveCritSamp(kn.psize, kn.obj_shape, kn.lmbda_nm,
                                 kn.steps[i].h.dist_nm)
                THEN "TF" ELSE "IR"

-----------------------------------------------------------------------------
(* Properties of the forward model, the probe and the rate, checked under  *)
(* Spec                                                                    *)

\* C11: when a free-space propagation distance is configured, the forward
\* model evaluated during reconstruction applies exactly one additional
\* propagation after the last slice; when none is configured it applies
\* none.
C11_FreePropagation ==
    \A w \in DOMAIN wk :
        (wk[w].pc \in Running /\ wk[w].built /\ wk[w].n_minibatch > 0) =>
            wk[w].n_free = IF cfg.free_prop_cm # None THEN 1 ELSE 0

\* C15: for every angle and every step the rotated volume is computed from
\* the current unrotated object, as updated by all the steps before, at
\* the angle of the step; the object itself never holds a rotation.
C15_RotationFromCurrentObject ==
    \A w \in DOMAIN wk :
        /\ wk[w].obj_frame = 0
        /\ (wk[w].pc \in Running /\ wk[w].n_minibatch > 0) =>
              /\ wk[w].obj_rot = [frame |-> Theta(wk[w].fwd_theta),
                                  version |-> wk[w].fwd_updates]
              /\ wk[w].n_update - wk[w].fwd_updates \in {0, 1}

\* C15: the second angle of an epoch, rotated after two updates
C15_Witness ==
    /\ cfg.n_theta = 2
    /\ wk[0].pc = "theta_head"
    /\ wk[0].fwd_theta = 1
    /\ wk[0].fwd_updates >= 2
    /\ wk[0].obj_rot.frame = Theta(1)

\* C16: with A > 1 and the dynamic rate, the multiplier of the learning
\* rate of an update made during epoch e is (A - 1) * exp(-e) + 1.
C16_DynamicRate ==
    \A w \in DOMAIN wk :
        (/\ cfg.dynamic_rate
         /\ cfg.n_batch_per_update > 1
         /\ wk[w].pc \in Running
         /\ wk[w].n_update > 0) =>
            wk[w].modifier = [boost |-> cfg.n_batch_per_update - 1,
                              exponent |-> wk[w].upd_epoch]

\* C17: with a learnable probe and a pupil function, after every update
\* step the probe the forward model uses is zero wherever the pupil is.
C17_ProbeWithinPupil ==
    \A w \in DOMAIN wk :
        (/\ cfg.probe_type = "optimizable"
         /\ cfg.pupil_function # None
         /\ wk[w].pc \in Running
         /\ wk[w].n_update > 0) =>
            wk[w].probe = PlaneTimes(wk[w].probe, Pupil)

\* C18: with probe type 'gaussian' or 'fixed' the probe planes are, at
\* every step of a level, those constructed when the level was set up.
C18_FixedProbeUnchanged ==
    \A w \in DOMAIN wk :
        (cfg.probe_type \in {"gaussian", "fixed"} /\ wk[w].pc \in Running) =>
            /\ wk[w].probe = wk[w].probe_init
            /\ wk[w].probe = ProbeInit(cfg)
            /\ ~wk[w].probe_masked

\* C18: a fixed probe after two updates of the object
C18_Witness ==
    /\ cfg.probe_type = "fixed"
    /\ wk[0].pc = "theta_head"
    /\ wk[0].n_update >= 2
    /\ wk[0].obj # wk[0].obj_init

C20_SameStartEverywhere ==
    \A w \in DOMAIN wk :
        (/\ wk[w].pc \in Running
         /\ wk[0].pc \in Running
         /\ Len(wk[w].done_levels) = Len(wk[0].done_levels)
         /\ wk[w].n_update = 0
         /\ wk[0].n_update = 0) =>
            /\ wk[w].obj = wk[0].obj
            /\ wk[w].probe = wk[0].probe

-----------------------------------------------------------------------------
(* Properties of the wavefront, checked under SpecWave *)

\* delta = beta = 0 everywhere
Vacuum(grid) ==
    \A i \in 1 .. Len(grid) : grid[i] = [kdelta |-> 0, kbeta |-> 0]

\* C12, as stated: for any incident probe and any number of slices,
\* multislice_propagate on an object with delta = beta = 0 returns a
\* wavefront whose magnitude at every pixel is that of the incident probe.
C12_MagnitudePerPixel ==
    (wv.pc = "done" /\ Vacuum(wv.grid)) =>
        \A i \in 1 .. Len(wv.probe) :
            ENorm(wv.wavefront.num[i])
                = Pow(9, wv.wavefront.pow) * ENorm(wv.probe[i])

\* C12, amended: with the kernel of get_kernel passed as h and no
\* free-space distance, the wavefront returned for an object with
\* delta = beta = 0 has the total intensity of the incident probe, the sum
\* over the pixels of the squared magnitude, after every slice.
C12_TotalIntensity ==
    (wv.pc \in {"slices", "done"} /\ wv.h_given /\ Vacuum(wv.grid)) =>
        Energy(wv.wavefront.num)
            = Pow(9, wv.wavefront.pow) * Energy(wv.probe)

\* C12: two slices of vacuum that moved intensity between the pixels
C12_Witness ==
    /\ wv.pc = "done"
    /\ Vacuum(wv.grid)
    /\ Len(wv.grid) = 2
    /\ Energy(wv.probe) > 0
    /\ \E i \in 1 .. Len(wv.probe) :
          ENorm(wv.wavefront.num[i])
              # Pow(9, wv.wavefront.pow) * ENorm(wv.probe[i])

-----------------------------------------------------------------------------
(* Properties of the interpolation, checked under SpecInterp *)

\* every coordinate of the point is an integer inside the field
AtLattice(w2, shape) ==
    \A d \in 1 .. 3 : w2[d] % 2 = 0 /\ w2[d] >= 0 /\ w2[d] <= 2 * (shape[d] - 1)

\* every coordinate of the point lies inside the field
InsideField(w2, shape) ==
    \A d \in 1 .. 3 : w2[d] >= 0 /\ w2[d] <= 2 * (shape[d] - 1)

\* the point of the field nearest to the point
Clamp(w2, shape) ==
    [d \in 1 .. 3 |-> IF w2[d] < 0 THEN 0
                      ELSE IF w2[d] > 2 * (shape[d] - 1)
                      THEN 2 * (shape[d] - 1)
                      ELSE w2[d]]

\* C13: for every field and every query point whose three coordinates are
\* integers inside the field, the value returned is the field's value at
\* that lattice point; the function fitted takes the values of the eight
\* neighbours at the neighbours.
C13_ExactAtLattice ==
    ip.pc = "done" =>
        /\ AtNeighbours(ip.a, ip.i000) = ip.c
        /\ AtLattice(ip.warp, ip.shape) =>
              ip.f8 = 8 * ip.data[<<ip.warp[1] \div 2, ip.warp[2] \div 2,
                                    ip.warp[3] \div 2>>]

\* C13: the last lattice point of a field that is 1 there and 0 elsewhere
C13_Witness ==
    /\ ip.pc = "done"
    /\ ip.poly = <<>>
    /\ ip.warp = <<2 * (ip.shape[1] - 1), 2 * (ip.shape[2] - 1),
                   2 * (ip.shape[3] - 1)>>
    /\ ip.f8 = 8

\* C14, as stated: for every field whose values are a trilinear polynomial
\* of the lattice coordinates, the value returned at any accepted
\* fractional point, those within one voxel of the boundary included, is
\* the value of the polynomial at the point.
C14_ReproducesPolynomial ==
    (ip.pc = "done" /\ ip.poly # <<>>) =>
        ip.f8 = Eval8(ip.poly, ip.warp)

\* C14, amended: for such a field the value returned at a point inside the
\* field is the value of the polynomial at the point, and at an accepted
\* point up to one voxel outside the field it is the value of the
\* polynomial at the nearest point of the field.
C14_ReproducesPolynomialInside ==
    (ip.pc = "done" /\ ip.poly # <<>>) =>
        /\ InsideField(ip.warp, ip.shape) =>
              ip.f8 = Eval8(ip.poly, ip.warp)
        /\ ip.f8 = Eval8(ip.poly, Clamp(ip.warp, ip.shape))

\* C14: a point with three fractional coordinates in the last cell of a
\* field that varies with every coordinate
C14_Witness ==
    /\ ip.pc = "done"
    /\ ip.poly # <<>>
    /\ ip.poly[8] = 1
    /\ ip.warp = <<2 * (ip.shape[1] - 1) - 1, 2 * (ip.shape[2] - 1) - 1,
                   2 * (ip.shape[3] - 1) - 1>>
    /\ ip.f8 = Eval8(ip.poly, ip.warp)
    /\ ip.f8 # 0

-----------------------------------------------------------------------------
(* Properties of the start of the run, the loss history, the accumulators, *)
(* the forward model and the barriers, checked under Spec                  *)

\* C21: when core_parallelization is False, or the import of Horovod or of
\* mpi4py fails, a worker that has gone through the start of the run has
\* issued a warning and has not aborted there: it goes on to the levels.
C21_DegradesToSingleWorker ==
    (~cfg.core_parallelization \/ ~cfg.horovod_is_ok \/ ~cfg.mpi4py_is_ok) =>
        \A w \in DOMAIN wk :
            wk[w].pc # "start" =>
                /\ wk[w].warned # {}
                /\ wk[w].error # "UnboundLocalError: comm"

\* the statement of C22 for the local variables l of rank 0
OneEntryPerEpoch(l) ==
    /\ (l.pc = "epoch_head" /\ l.epoch = 0) =>
          (l.loss_ls = <<>> /\ l.reg_ls = <<>>)
    /\ l.pc = "level_end" =>
          /\ Len(l.loss_ls) = Len(l.reg_ls)
          /\ l.reg_ls = [k \in 1 .. (IF l.broke THEN l.epoch + 1
                                     ELSE l.epoch) |-> k - 1]

\* C22, as stated: on rank 0 the loss history is empty when a level starts
\* its epochs, and when the level ends loss_ls and reg_ls have the same
\* length, with exactly one entry for each epoch run, the one the
\* criterion stopped included; on every path.
C22_OneEntryPerEpoch_AnyPath == OneEntryPerEpoch(wk[0])

\* C22, amended: the same on the collective path (mpi4py available) or
\* with a single worker.
C22_OneEntryPerEpoch ==
    (cfg.mpi4py_is_ok \/ cfg.size = 1) => OneEntryPerEpoch(wk[0])

\* C22: a level of three epochs that the criterion stopped
C22_Witness ==
    /\ cfg.n_epochs = Auto
    /\ wk[0].pc = "level_end"
    /\ wk[0].broke
    /\ Len(wk[0].reg_ls) = 3
    /\ Len(wk[0].loss_ls) = 3

\* C23: with n_batch_per_update > 1, the accumulators of the object and of
\* the probe are zero right after every update (the window counter is
\* back at 0) and wherever a worker stands between the batches of two
\* angles or epochs, so a gradient summed before an update is in no later
\* update.
C23_AccumulatorsZero ==
    \A w \in DOMAIN wk :
        ( /\ cfg.n_batch_per_update > 1
          /\ wk[w].pc \in Running
          /\ wk[w].pc = "batch" => wk[w].batch_counter = 0 ) =>
            /\ wk[w].accum_grad = Zero
            /\ wk[w].accum_grad_probe = 0
            /\ wk[w].n_accum = 0

\* C23: an update of a full window in the middle of an angle's batches,
\* made of two gradients, with the accumulators zero after it
C23_Witness ==
    /\ cfg.n_batch_per_update = 2
    /\ cfg.probe_type = "optimizable"
    /\ wk[0].pc = "batch"
    /\ wk[0].i_batch = 2
    /\ wk[0].n_batch = 3
    /\ wk[0].batch_counter = 0
    /\ wk[0].last_window = 2
    /\ wk[0].n_update >= 1
    /\ wk[0].accum_grad = Zero
    /\ wk[0].accum_grad_probe = 0

\* C24: the loss of one sess.run has minibatch_size terms, for the
\* positions 0 .. minibatch_size-1 in this order, all cut from the one
\* rotation of the object at the current angle and so from the object as
\* it was before the step; the step makes at most one update, after them.
C24_OneRotationPerMinibatch ==
    \A w \in DOMAIN wk :
        (wk[w].pc \in Running /\ wk[w].n_minibatch > 0) =>
            /\ Len(wk[w].fwd_terms) = cfg.minibatch_size
            /\ \A k \in 1 .. Len(wk[w].fwd_terms) :
                  /\ wk[w].fwd_terms[k].pos = k - 1
                  /\ wk[w].fwd_terms[k].frame = wk[w].obj_rot.frame
                  /\ wk[w].fwd_terms[k].version = wk[w].fwd_updates
            /\ wk[w].n_update - wk[w].fwd_updates \in {0, 1}

\* C24: a third minibatch of two positions, after one update
C24_Witness ==
    /\ cfg.minibatch_size = 2
    /\ wk[0].pc \in Running
    /\ wk[0].n_minibatch = 3
    /\ wk[0].n_update = 1
    /\ wk[0].fwd_updates = 1
    /\ Len(wk[0].fwd_terms) = 2
    /\ wk[0].fwd_terms[2] = [pos |-> 1, frame |-> wk[0].obj_rot.frame,
                             version |-> 1]

-----------------------------------------------------------------------------
(* Properties of the loop over the slices, checked under SpecWave *)

\* the slices 0 .. n_slice-1 were read in increasing order, each once, in
\* n_slice passes of the loop
SlicesInOrder(v) ==
    /\ v.i = Len(v.grid)
    /\ v.trace = [k \in 1 .. Len(v.grid) |-> k - 1]

\* C25: every call of multislice_propagate ends by returning the final
\* wavefront, after exactly n_slice passes of the loop that read the
\* slices 0, 1, ..., n_slice-1 in increasing order, each once, a pass
\* being the slice's modulation followed by one propagation.
C25_SlicesInOrder ==
    wv.pc \in {"done", "aborted"} =>
        /\ wv.pc = "done"
        /\ SlicesInOrder(wv)

\* the same for the calls that pass the kernel h
C25_SlicesInOrder_GivenKernel ==
    (wv.pc \in {"done", "aborted"} /\ wv.h_given) =>
        /\ wv.pc = "done"
        /\ SlicesInOrder(wv)

-----------------------------------------------------------------------------
(* Properties of the indices of the interpolation, under SpecInterp *)

\* the eight neighbour indices lie in 0 .. n + 1 on every axis
NeighboursInPadded(p) ==
    \A d \in 1 .. 3 : p.i000[d] >= 0 /\ p.i000[d] + 1 <= p.shape[d] + 1

\* C26: for every field and every point with -1 <= c <= n on every axis,
\* the eight neighbour indices the call has used lie inside the field
\* padded by one voxel, 0 .. n + 1, and the lookup has not left it.
C26_NeighboursInPadded ==
    ip.pc \in {"done", "aborted"} =>
        /\ NeighboursInPadded(ip)
        /\ ip.error = ""

\* the same for the points with -1 <= c < n on every axis
C26_NeighboursInPadded_Below ==
    ( /\ ip.pc \in {"done", "aborted"}
      /\ \A d \in 1 .. 3 : ip.warp[d] < 2 * ip.shape[d] ) =>
        /\ NeighboursInPadded(ip)
        /\ ip.error = ""

-----------------------------------------------------------------------------
(* Properties of the barriers, the report and the batches *)

\* the places of a level after its barriers, and those of an epoch, whose
\* counter stands for the next epoch at the barrier that ends it
InLevel == {"level_init"} \cup Running
InEpoch == Running \ {"bar_epoch", "level_end"}

\* the statement of C27 for the workers of a run
Lockstep ==
    \A w, v \in DOMAIN wk :
        /\ \* no worker is in a level the others have not reached
           (wk[w].pc \in InLevel /\ wk[v].pc # "aborted") =>
              Len(wk[v].done_levels) >= Len(wk[w].done_levels)
        /\ \* no worker is in epoch e + 1 before the others finished e
           ( /\ wk[w].pc \in InEpoch /\ wk[w].epoch >= 1
             /\ wk[v].pc # "aborted"
             /\ Len(wk[v].done_levels) = Len(wk[w].done_levels) ) =>
              /\ wk[v].pc \in Running
              /\ wk[v].epoch >= wk[w].epoch
        /\ \* the workers waiting at a barrier of MPI made the same call
           ( /\ cfg.mpi4py_is_ok
             /\ wk[w].pc \in BarrierPcs /\ wk[v].pc \in BarrierPcs ) =>
              /\ wk[v].pc = wk[w].pc
              /\ wk[v].epoch = wk[w].epoch
        /\ \* no worker waits for one that will not call the barrier
           (cfg.mpi4py_is_ok /\ wk[w].pc \in BarrierPcs) =>
              wk[v].pc \notin {"aborted", "done"}

\* C27, as stated: in every run the workers make the same barrier calls in
\* every level and epoch, none is in epoch e + 1 or in the next level
\* before all have finished epoch e or the level, and none waits at a
\* barrier for a worker that will never call it.
C27_Lockstep_AnyPath == Lockstep

\* C27, amended: the same when mpi4py is available, so that the barriers
\* are those of MPI, or with a single worker.
C27_Lockstep == (cfg.mpi4py_is_ok \/ cfg.size = 1) => Lockstep

\* C27: two workers past the barrier that ends the first epoch
C27_Witness ==
    /\ cfg.mpi4py_is_ok
    /\ cfg.size = 2
    /\ wk[0].pc = "batch"
    /\ wk[1].pc = "batch"
    /\ wk[0].epoch = 1
    /\ wk[1].epoch = 1

\* C28: for every probe type and every accumulation factor, the report
\* that follows a minibatch is made of values the step has defined, and
\* the run goes on: no worker ends in the report's exception.
C28_ReportNeverAborts ==
    \A w \in DOMAIN wk :
        wk[w].n_minibatch + wk[w].n_accum > 0 =>
            wk[w].error # "UnboundLocalError: current_probe_reg"

\* the places of the batches that hold the index k
Places(batches, k) ==
    {p \in UNION {{<<j, i>> : i \in 1 .. Len(batches[j])} :
                    j \in 1 .. Len(batches)} : batches[p[1]][p[2]] = k}

\* C29: in the batches of an epoch every index 0 .. n_pos-1 occurs once or
\* twice; the first n_pos entries of the list hold every index once and
\* the entries added are pairwise distinct; every angle is fed the same
\* batches, in the same order.  Checked under SpecBatch.
C29_EachIndexOnceOrTwice ==
    bt.pc \in {"feed", "done"} =>
        /\ \A k \in 0 .. (bt.c.n_pos - 1) :
              /\ Cardinality(Places(bt.batches, k)) \in {1, 2}
              /\ \E i \in 1 .. bt.c.n_pos : bt.ind_list_rand[i] = k
        /\ \A i, j \in (bt.c.n_pos + 1) .. Len(bt.ind_list_rand) :
              i # j => bt.ind_list_rand[i] # bt.ind_list_rand[j]
        /\ \A a \in 1 .. Len(bt.fed_ls) :
              bt.fed_ls[a] = SubSeq(bt.batches, 1, Len(bt.fed_ls[a]))
        /\ bt.pc = "done" =>
              bt.fed_ls = [a \in 1 .. bt.c.n_theta |-> bt.batches]

\* C29: two angles fed the two batches of a padded list of three
\* positions, one of them drawn twice
C29_Witness ==
    /\ bt.pc = "done"
    /\ bt.c.n_pos = 3
    /\ bt.c.n_theta = 2
    /\ Len(bt.ind_list_rand) = 4
    /\ Len(bt.batches) = 2
    /\ Len(bt.fed_ls) = 2
    /\ Cardinality(Places(bt.batches, bt.ind_list_rand[4])) = 2

-----------------------------------------------------------------------------
(* Properties of the shifts, checked under SpecShift *)

\* the entry of index q of the starting tensor stands at index p
MovedTo(q, p) ==
    IF Len(sh.shape) = 1 THEN sh.y[p[1] + 1] = <<q[1]>>
    ELSE sh.y[p[1] + 1][p[2] + 1] = <<q[1], q[2]>>

ShiftIdx ==
    IF Len(sh.shape) = 1 THEN {<<i>> : i \in 0 .. (sh.shape[1] - 1)}
    ELSE {<<i, j>> : i \in 0 .. (sh.shape[1] - 1),
                     j \in 0 .. (sh.shape[2] - 1)}

\* C30: for every shape, with even or odd lengths, ifftshift(fftshift(x))
\* = x and fftshift(ifftshift(x)) = x, and fftshift moves the entries of
\* index 0 on an axis of length n to index n div 2 on that axis (every
\* entry moves by n div 2, cyclically).
C30_ShiftsAreInverse ==
    sh.pc = "shift" =>
        /\ sh.ops = <<"fftshift", "ifftshift">> => sh.y = sh.x
        /\ sh.ops = <<"ifftshift", "fftshift">> => sh.y = sh.x
        /\ sh.ops = <<"fftshift">> =>
              \A q \in ShiftIdx :
                  MovedTo(q, [a \in 1 .. Len(sh.shape) |->
                                (q[a] + sh.shape[a] \div 2) % sh.shape[a]])

\* C30: a tensor of 3 x 4 entries, shifted and shifted back
C30_Witness ==
    /\ sh.pc = "shift"
    /\ sh.shape = <<3, 4>>
    /\ sh.ops = <<"fftshift", "ifftshift">>
    /\ sh.y = sh.x
    /\ sh.y[1][1] = <<0, 0>>

====
